---- MODULE Spec2Model ----
(***************************************************************************)
(* The answer pipeline of promtior_assistant: InputValidator and           *)
(* OutputValidator (domain/services/validators.py) and the retry loop of   *)
(* AnswerQuestionUseCase.execute (application/use_cases/answer_question.py)*)
(* Python strings are sequences of one-character strings, so that strip,   *)
(* len, html.escape, str.join and re.search are computed, not assumed.     *)
(***************************************************************************)
EXTENDS Integers, Sequences, FiniteSets, TLC

(***************************************************************************)
(* Characters and the str methods the code uses                            *)
(***************************************************************************)
UpperCase == <<"A", "B", "C", "D", "E", "F", "G", "H", "I", "J", "K", "L", "M", "N", "O", "P", "Q", "R", "S", "T", "U", "V", "W", "X", "Y", "Z">>

LowerCase == <<"a", "b", "c", "d", "e", "f", "g", "h", "i", "j", "k", "l", "m", "n", "o", "p", "q", "r", "s", "t", "u", "v", "w", "x", "y", "z">>

Digits == {"0", "1", "2", "3", "4", "5", "6", "7", "8", "9"}

Whitespace == {" ", "\t", "\n", "\r", "\f"}

Range(s) == {s[i] : i \in 1..Len(s)}

WordChars == Range(UpperCase) \cup Range(LowerCase) \cup Digits \cup {"_"}

\* str.lower on each upper-case character
LowerOf ==
    [c \in Range(UpperCase) |-> LowerCase[CHOOSE i \in 1..Len(UpperCase) : UpperCase[i] = c]]

\* str.lower on one character
LowerChar(c) == IF c \in DOMAIN LowerOf THEN LowerOf[c] ELSE c

\* str.lower
lower(s) == [i \in 1..Len(s) |-> LowerChar(s[i])]

\* str.strip: the string without its leading and trailing whitespace
strip(s) ==
    IF \A i \in 1..Len(s) : s[i] \in Whitespace THEN <<>>
    ELSE LET first == CHOOSE i \in 1..Len(s) :
                          s[i] \notin Whitespace /\ \A j \in 1..(i - 1) : s[j] \in Whitespace
             last  == CHOOSE i \in 1..Len(s) :
                          s[i] \notin Whitespace /\ \A j \in (i + 1)..Len(s) : s[j] \in Whitespace
         IN  SubSeq(s, first, last)

\* a variant of EscapeChar: html.escape with quote=False, the quotes left as they are
EscapeCharNoQuote(c) ==
    CASE c = "&"  -> <<"&", "a", "m", "p", ";">>
      [] c = "<"  -> <<"&", "l", "t", ";">>
      [] c = ">"  -> <<"&", "g", "t", ";">>
      [] OTHER    -> <<c>>

\* html.escape on one character (quote=True)
EscapeChar(c) ==
    CASE c = "&"  -> <<"&", "a", "m", "p", ";">>
      [] c = "<"  -> <<"&", "l", "t", ";">>
      [] c = ">"  -> <<"&", "g", "t", ";">>
      [] c = "\"" -> <<"&", "q", "u", "o", "t", ";">>
      [] c = "'"  -> <<"&", "#", "x", "2", "7", ";">>
      [] OTHER    -> <<c>>

RECURSIVE escape(_)
\* html.escape: every character replaced by its escape, halves first to keep the
\* evaluation shallow on a long string
escape(s) ==
    IF s = <<>> THEN <<>>
    ELSE IF Len(s) = 1 THEN EscapeChar(s[1])
    ELSE LET half == Len(s) \div 2
         IN  escape(SubSeq(s, 1, half)) \o escape(SubSeq(s, half + 1, Len(s)))

RECURSIVE join(_, _)
\* sep.join(parts)
join(sep, parts) ==
    IF parts = <<>> THEN <<>>
    ELSE IF Len(parts) = 1 THEN parts[1]
    ELSE parts[1] \o sep \o join(sep, Tail(parts))

(***************************************************************************)
(* Regular expressions: a pattern is a sequence of items, each a literal   *)
(* character, a repeated character class or an alternation of patterns.    *)
(***************************************************************************)
Chr(c) == [t |-> "chr", c |-> c]

Lit(s) == [i \in 1..Len(s) |-> Chr(s[i])]

\* cls{lo,hi}; hi = -1 is unbounded
Rep(cls, lo, hi) == [t |-> "rep", cls |-> cls, lo |-> lo, hi |-> hi]

Alt(alts) == [t |-> "alt", alts |-> alts]

InClass(cls, c) ==
    CASE cls = "dot" -> c # "\n"
      [] cls = "w"   -> c \in WordChars
      [] cls = "s"   -> c \in Whitespace
      [] cls = "d"   -> c \in Digits

RECURSIVE MatchAt(_, _, _)
\* the pattern matches a substring of s that starts at position i (re.IGNORECASE)
MatchAt(pattern, s, i) ==
    IF pattern = <<>> THEN TRUE
    ELSE LET h == Head(pattern)
             rest == Tail(pattern)
         IN  CASE h.t = "chr" ->
                    /\ i <= Len(s)
                    /\ LowerChar(s[i]) = LowerChar(h.c)
                    /\ MatchAt(rest, s, i + 1)
               [] h.t = "rep" ->
                    \E n \in h.lo..(IF h.hi < 0 THEN Len(s) - i + 1 ELSE h.hi) :
                        /\ i + n - 1 <= Len(s)
                        /\ \A j \in i..(i + n - 1) : InClass(h.cls, s[j])
                        /\ MatchAt(rest, s, i + n)
               [] h.t = "alt" ->
                    \E a \in 1..Len(h.alts) : MatchAt(h.alts[a] \o rest, s, i)

\* re.search(pattern, s, re.IGNORECASE) finds a match
re_search(pattern, s) == \E i \in 1..(Len(s) + 1) : MatchAt(pattern, s, i)

(***************************************************************************)
(* Exceptions and results                                                  *)
(***************************************************************************)
\* Python's None; str(None) is "None"
None == [type |-> "NoneType", msg |-> "None"]

\* ValueError(msg), raised with no "from": __cause__ is None
ValueError(msg) == [type |-> "ValueError", msg |-> msg, cause |-> None]

\* Exception(msg), raised with no "from": __cause__ is None
Exception(msg) == [type |-> "Exception", msg |-> msg, cause |-> None]

Raise(e) == [raised |-> TRUE, error |-> e, value |-> <<>>]

Return(v) == [raised |-> FALSE, error |-> None, value |-> v]

(***************************************************************************)
(* InputValidator                                                          *)
(***************************************************************************)
MAX_LENGTH == 2000

MIN_LENGTH == 3

\* a variant of FORBIDDEN_PATTERNS: a character entity (&\w+;) is forbidden too
FORBIDDEN_PATTERNS_entities ==
    << Lit(<<"<", "s", "c", "r", "i", "p", "t">>),
       Lit(<<"j", "a", "v", "a", "s", "c", "r", "i", "p", "t", ":">>),
       Lit(<<"o", "n">>) \o <<Rep("w", 1, -1), Rep("s", 0, -1)>> \o Lit(<<"=">>),
       Lit(<<"i", "m", "p", "o", "r", "t">>) \o <<Rep("s", 1, -1)>>,
       Lit(<<"e", "x", "e", "c">>) \o <<Rep("s", 0, -1)>> \o Lit(<<"(">>),
       Lit(<<"e", "v", "a", "l">>) \o <<Rep("s", 0, -1)>> \o Lit(<<"(">>),
       Lit(<<"&">>) \o <<Rep("w", 1, -1)>> \o Lit(<<";">>) >>

FORBIDDEN_PATTERNS ==
    << Lit(<<"<", "s", "c", "r", "i", "p", "t">>),
       Lit(<<"j", "a", "v", "a", "s", "c", "r", "i", "p", "t", ":">>),
       Lit(<<"o", "n">>) \o <<Rep("w", 1, -1), Rep("s", 0, -1)>> \o Lit(<<"=">>),
       Lit(<<"i", "m", "p", "o", "r", "t">>) \o <<Rep("s", 1, -1)>>,
       Lit(<<"e", "x", "e", "c">>) \o <<Rep("s", 0, -1)>> \o Lit(<<"(">>),
       Lit(<<"e", "v", "a", "l">>) \o <<Rep("s", 0, -1)>> \o Lit(<<"(">>) >>

\* a variant of InputValidator_validate: a question of exactly MAX_LENGTH characters is too long
InputValidator_validate_exclusive(question) ==
    IF question = <<>> \/ strip(question) = <<>>
    THEN Raise(ValueError("Question cannot be empty"))
    ELSE LET q == strip(question)
         IN  IF Len(q) < MIN_LENGTH
             THEN Raise(ValueError("Question too short (min " \o ToString(MIN_LENGTH) \o " chars)"))
             ELSE IF Len(q) >= MAX_LENGTH
             THEN Raise(ValueError("Question too long (max " \o ToString(MAX_LENGTH) \o " chars)"))
             ELSE IF \E p \in 1..Len(FORBIDDEN_PATTERNS) : re_search(FORBIDDEN_PATTERNS[p], q)
             THEN Raise(ValueError("Question contains forbidden patterns"))
             ELSE Return(escape(q))

\* a variant of InputValidator_validate: the question is escaped before the patterns
\* are looked for
InputValidator_validate_escape_first(question) ==
    IF question = <<>> \/ strip(question) = <<>>
    THEN Raise(ValueError("Question cannot be empty"))
    ELSE LET q == strip(question)
         IN  IF Len(q) < MIN_LENGTH
             THEN Raise(ValueError("Question too short (min " \o ToString(MIN_LENGTH) \o " chars)"))
             ELSE IF Len(q) > MAX_LENGTH
             THEN Raise(ValueError("Question too long (max " \o ToString(MAX_LENGTH) \o " chars)"))
             ELSE IF \E p \in 1..Len(FORBIDDEN_PATTERNS) :
                        re_search(FORBIDDEN_PATTERNS[p], escape(q))
             THEN Raise(ValueError("Question contains forbidden patterns"))
             ELSE Return(escape(q))

InputValidator_validate(question) ==
    IF question = <<>> \/ strip(question) = <<>>
    THEN Raise(ValueError("Question cannot be empty"))
    ELSE LET q == strip(question)
         IN  IF Len(q) < MIN_LENGTH
             THEN Raise(ValueError("Question too short (min " \o ToString(MIN_LENGTH) \o " chars)"))
             ELSE IF Len(q) > MAX_LENGTH
             THEN Raise(ValueError("Question too long (max " \o ToString(MAX_LENGTH) \o " chars)"))
             ELSE IF \E p \in 1..Len(FORBIDDEN_PATTERNS) : re_search(FORBIDDEN_PATTERNS[p], q)
             THEN Raise(ValueError("Question contains forbidden patterns"))
             ELSE Return(escape(q))

(***************************************************************************)
(* OutputValidator                                                         *)
(***************************************************************************)
\* a variant of MIN_ANSWER_LENGTH: one character fewer
min_answer_length_four == MIN_LENGTH + 1

MIN_ANSWER_LENGTH == 5

HALLUCINATION_PATTERNS ==
    << Lit(<<"[", "i", "n", "s", "e", "r", "t">>) \o <<Rep("dot", 0, -1)>> \o Lit(<<"]">>),
       Lit(<<"[">>) \o <<Rep("dot", 0, -1)>> \o Lit(<<"d", "a", "t", "e">>) \o <<Rep("dot", 0, -1)>> \o Lit(<<"]">>),
       Lit(<<"[">>) \o <<Rep("dot", 0, -1)>> \o Lit(<<"y", "e", "a", "r">>) \o <<Rep("dot", 0, -1)>> \o Lit(<<"]">>),
       Lit(<<"[">>) \o <<Rep("dot", 0, -1)>> \o Lit(<<"n", "u", "m", "b", "e", "r">>) \o <<Rep("dot", 0, -1)>> \o Lit(<<"]">>),
       Lit(<<"[">>) \o <<Rep("d", 4, 4)>> \o Lit(<<"]">>),
       Lit(<<"a", "c", "c", "o", "r", "d", "i", "n", "g", " ", "t", "o", " ", "m", "y", " ", "k", "n", "o", "w", "l", "e", "d", "g", "e">>),
       Lit(<<"b", "a", "s", "e", "d", " ", "o", "n", " ", "m", "y", " ", "k", "n", "o", "w", "l", "e", "d", "g", "e">>),
       Lit(<<"m", "y", " ", "t", "r", "a", "i", "n", "i", "n", "g", " ", "d", "a", "t", "a">>),
       Lit(<<"a", "s", " ", "a", "n", " ", "A", "I", " ">>) \o <<Alt(<<Lit(<<"m", "o", "d", "e", "l">>), Lit(<<"a", "s", "s", "i", "s", "t", "a", "n", "t">>), Lit(<<"l", "a", "n", "g", "u", "a", "g", "e", " ", "m", "o", "d", "e", "l">>)>>)>>,
       Lit(<<"I", " ", "a", "m", " ">>) \o <<Alt(<<Lit(<<"a", "n", " ", "A", "I">>), Lit(<<"a", " ", "l", "a", "n", "g", "u", "a", "g", "e", " ", "m", "o", "d", "e", "l">>)>>)>>,
       Lit(<<"I", " ", "a", "p", "o", "l", "o", "g", "i", "z", "e", ",", " ", "b", "u", "t", " ", "I">>) >>

\* the patterns as written in the source, for the error message
HALLUCINATION_SOURCE ==
    << "\\[insert.*\\]", "\\[.*date.*\\]", "\\[.*year.*\\]", "\\[.*number.*\\]",
       "\\[\\d{4}\\]", "according to my knowledge", "based on my knowledge",
       "my training data", "as an AI (model|assistant|language model)",
       "I am (an AI|a language model)", "I apologize, but I" >>

\* the first pattern, in list order, found in the lower-cased answer (0: none)
FirstHallucination(answer) ==
    LET answer_lower == lower(answer)
        hits == {p \in 1..Len(HALLUCINATION_PATTERNS) :
                    re_search(HALLUCINATION_PATTERNS[p], answer_lower)}
    IN  IF hits = {} THEN 0 ELSE CHOOSE p \in hits : \A r \in hits : p <= r

\* a variant of OutputValidator_validate: the length check is made on the untrimmed answer
OutputValidator_validate_untrimmed(answer) ==
    IF answer = <<>> \/ strip(answer) = <<>>
    THEN Raise(ValueError("Empty response from AI"))
    ELSE IF Len(answer) < MIN_ANSWER_LENGTH
    THEN Raise(ValueError("Response too short to be valid"))
    ELSE IF FirstHallucination(answer) # 0
    THEN Raise(ValueError("AI output contains placeholder or hallucination: "
                           \o HALLUCINATION_SOURCE[FirstHallucination(answer)]))
    ELSE Return(strip(answer))

OutputValidator_validate(answer) ==
    IF answer = <<>> \/ strip(answer) = <<>>
    THEN Raise(ValueError("Empty response from AI"))
    ELSE IF Len(strip(answer)) < MIN_ANSWER_LENGTH
    THEN Raise(ValueError("Response too short to be valid"))
    ELSE IF FirstHallucination(answer) # 0
    THEN Raise(ValueError("AI output contains placeholder or hallucination: "
                           \o HALLUCINATION_SOURCE[FirstHallucination(answer)]))
    ELSE Return(strip(answer))

(***************************************************************************)
(* The collaborators' possible responses and the callers' questions        *)
(***************************************************************************)
MaxDocs == 1

Questions ==
    { <<>>, <<" ", "\t">>, <<"a", "b">>, <<"<", "s", "c", "r", "i", "p", "t", ">">>, <<"e", "v", "a", "l", " ", "(", "x", ")">>, <<" ", "R", "&", "D", "?", " ">> }

Document(content) == [page_content |-> content, metadata |-> [source |-> "test"]]

DocPool == { Document(<<"A", "I", ".">>), Document(<<"B", "\n">>) }

DocLists == UNION {[1..n -> DocPool] : n \in 0..MaxDocs}

\* what one retrieve_documents call can do: raise, or return a list of documents
RetrieveResults == {Raise(Exception("connection refused"))} \cup {Return(d) : d \in DocLists}

Answers ==
    { <<>>, <<" ", "a", "b", "c", "d", " ">>, <<"A", "s", " ", "a", "n", " ", "A", "I", " ", "m", "o", "d", "e", "l", ",", " ", "n", "o", ".">>, <<" ", "A", "I", " ", "c", "o", "n", "s", "u", "l", "t", "i", "n", "g", ".", "\n">>, <<"a", "b", "c", "d", "e">> }

\* what one generate call can do: raise, or return a text
GenerateResults ==
    {Raise(Exception("API error"))} \cup {Return(a) : a \in Answers}

\* InputValidator.validate on each question of the model (a pure function, computed once)
ValidatedQuestions == [q \in Questions |-> InputValidator_validate(q)]

\* OutputValidator.validate on each answer of the model (a pure function, computed once)
ValidatedAnswers == [a \in Answers |-> OutputValidator_validate(a)]

(***************************************************************************)
(* AnswerQuestionUseCase                                                   *)
(***************************************************************************)
VARIABLES
    pc,                 \* where execute is: start, retrieving, generating, sleeping, done
    question,           \* the argument of execute
    validated_question,
    attempt,
    last_error,
    documents,
    context,
    prompt,
    outcome,            \* what execute did: Return(answer) or Raise(error)
    calls               \* the awaited calls made so far, in order

vars == <<pc, question, validated_question, attempt, last_error, documents, context,
          prompt, outcome, calls>>

(***************************************************************************)
(* One call of a validator on its own, outside execute                     *)
(***************************************************************************)
VARIABLES
    vpc,                \* where the call is: idle, called, returned, revalidated
    validator,          \* what is called: a validator class or "context", "none" when there is no call
    arg,                \* the argument of validate
    ret,                \* what validate did: Return(value) or Raise(error)
    ret_again           \* what validate did on the value it had returned

valvars == <<vpc, validator, arg, ret, ret_again>>

(***************************************************************************)
(* One request to an ask endpoint                                          *)
(***************************************************************************)
VARIABLES
    endpoint,           \* the path requested, "none" when there is no request
    response            \* the response sent, NoResponse before it is sent

httpvars == <<endpoint, response>>

(***************************************************************************)
(* The requests served at the same time by one event loop                  *)
(***************************************************************************)
VARIABLES
    impl,               \* the pipeline the requests run, "none" when there is no loop
    tasks               \* per request, where its pipeline is and its attempt

loopvars == <<impl, tasks>>

(***************************************************************************)
(* The application around the pipeline: the Container of singletons, the   *)
(* environment and the vector-store directory                              *)
(***************************************************************************)
VARIABLES
    Container,          \* the class attributes _llm and _embeddings
    factories,          \* per factory, the instances it returned: ever, and since the last cleanup
    gets,               \* per getter, the instances it returned since the last cleanup
    retired,            \* the instances cleanup dropped
    environ,            \* os.environ, the pairs of a name and its value
    chroma_dir,         \* the vector-store directory: "absent", "stale", "empty" or "ingested"
    last                \* the last operation on the application and its result

appvars == <<Container, factories, gets, retired, environ, chroma_dir, last>>

\* everything that is not a field of execute
others == <<valvars, httpvars, loopvars, appvars>>

MAX_RETRIES == 3

\* a variant of max_retries: one attempt fewer
max_retries_two == MAX_RETRIES - 1

\* line 78
max_retries == MAX_RETRIES

K == 5

TEMPERATURE == "0.1"

Pending == [raised |-> FALSE, error |-> None, value |-> <<"pending">>]

\* no validator is called on its own
NoValidatorCall ==
    /\ vpc = "idle"
    /\ validator = "none"
    /\ arg = <<>>
    /\ ret = Pending
    /\ ret_again = Pending

NoResponse == [status_code |-> 0, body |-> [detail |-> ""]]

\* no request is being served
NoRequest ==
    /\ endpoint = "none"
    /\ response = NoResponse

\* no event loop is modelled
NoLoop ==
    /\ impl = "none"
    /\ tasks = <<>>

\* container.py lines 25-26: the class attributes before any call
EmptyContainer == [_llm |-> None, _embeddings |-> None]

NoInstances ==
    [create_llm |-> [ever |-> 0, since_cleanup |-> 0],
     create_embeddings |-> [ever |-> 0, since_cleanup |-> 0]]

NoGets == [get_llm |-> {}, get_embeddings |-> {}]

NoCall ==
    [op |-> "none", args |-> {}, did |-> {},
     before |-> [Container |-> EmptyContainer, chroma_dir |-> "absent"], result |-> Return(None)]

\* the application is not exercised
NoApp ==
    /\ Container = EmptyContainer
    /\ factories = NoInstances
    /\ gets = NoGets
    /\ retired = {}
    /\ environ = {}
    /\ chroma_dir = "absent"
    /\ last = NoCall

\* no execute is running
NoExecute ==
    /\ pc = "idle"
    /\ question = <<>>
    /\ validated_question = <<>>
    /\ attempt = 0
    /\ last_error = None
    /\ documents = <<>>
    /\ context = <<>>
    /\ prompt = <<>>
    /\ outcome = Pending
    /\ calls = <<>>

_build_prompt(q, ctx) ==
    <<"Y", "o", "u", " ", "a", "r", "e", " ", "a", " ", "h", "e", "l", "p", "f", "u", "l", " ", "a", "s", "s", "i", "s", "t", "a", "n", "t", ".", " ", "U", "s", "e", " ", "t", "h", "e", " ", "c", "o", "n", "t", "e", "x", "t", " ", "b", "e", "l", "o", "w", " ", "t", "o", " ", "a", "n", "s", "w", "e", "r", " ", "t", "h", "e", " ", "q", "u", "e", "s", "t", "i", "o", "n", ".", "\n", "\n", "C", "o", "n", "t", "e", "x", "t", ":", "\n">>
    \o ctx \o <<"\n", "\n", "Q", "u", "e", "s", "t", "i", "o", "n", ":", " ">> \o q \o <<"\n", "\n", "A", "n", "s", "w", "e", "r", ":">>

\* a variant of wait_time: linear instead of exponential
wait_time_linear(n) == 2 * n

wait_time(n) == 2 ^ n

RetrieveCall(query, res) == [op |-> "retrieve_documents", query |-> query, k |-> K, result |-> res]

GenerateCall(p, res) == [op |-> "generate", prompt |-> p, temperature |-> TEMPERATURE, result |-> res]

SleepCall(seconds) == [op |-> "sleep", delay |-> seconds]

Init ==
    /\ pc = "start"
    /\ question \in Questions
    /\ validated_question = <<>>
    /\ attempt = 0
    /\ last_error = None
    /\ documents = <<>>
    /\ context = <<>>
    /\ prompt = <<>>
    /\ outcome = Pending
    /\ calls = <<>>
    /\ NoValidatorCall
    /\ NoRequest
    /\ NoLoop
    /\ NoApp

\* line 110: the error raised when the loop ends without a return
Exhaustion(e) ==
    Exception("Failed to generate RAG answer after " \o ToString(max_retries)
              \o " attempts: " \o e.msg)

\* a variant of HandleFailure: only the first error is recorded
HandleFailureFirstError(e, made) ==
    /\ last_error' = IF last_error = None THEN e ELSE last_error
    /\ IF attempt < max_retries - 1
       THEN /\ calls' = Append(made, SleepCall(wait_time(attempt)))
            /\ pc' = "sleeping"
            /\ outcome' = outcome
       ELSE /\ calls' = made
            /\ pc' = "done"
            /\ outcome' = Raise(Exhaustion(last_error'))

\* a variant of HandleFailure: after the last attempt execute returns an empty answer
HandleFailureSwallow(e, made) ==
    /\ last_error' = e
    /\ IF attempt < max_retries - 1
       THEN /\ calls' = Append(made, SleepCall(wait_time(attempt)))
            /\ pc' = "sleeping"
            /\ outcome' = outcome
       ELSE /\ calls' = made
            /\ pc' = "done"
            /\ outcome' = Return(<<>>)

\* line 98-110: the except clause, after the awaited calls made so far; after the
\* last attempt the loop ends and execute raises
HandleFailure(e, made) ==
    /\ last_error' = e
    /\ IF attempt < max_retries - 1
       THEN /\ calls' = Append(made, SleepCall(wait_time(attempt)))
            /\ pc' = "sleeping"
            /\ outcome' = outcome
       ELSE /\ calls' = made
            /\ pc' = "done"
            /\ outcome' = Raise(Exhaustion(last_error'))

\* a variant of Validate: the validation is made inside the try block
ValidateRetried ==
    /\ pc = "start"
    /\ LET r == ValidatedQuestions[question]
       IN  IF r.raised
           THEN /\ HandleFailure(r.error, calls)
                /\ UNCHANGED <<validated_question, attempt>>
           ELSE /\ validated_question' = r.value
                /\ last_error' = None
                /\ attempt' = 0
                /\ pc' = "retrieving"
                /\ UNCHANGED <<outcome, calls>>
    /\ UNCHANGED <<question, documents, context, prompt>>

\* line 76-81: validate the question; an invalid one raises out of execute
Validate ==
    /\ pc = "start"
    /\ LET r == ValidatedQuestions[question]
       IN  IF r.raised
           THEN /\ outcome' = r
                /\ pc' = "done"
                /\ UNCHANGED <<validated_question, attempt, last_error>>
           ELSE /\ validated_question' = r.value
                /\ last_error' = None
                /\ attempt' = 0
                /\ pc' = "retrieving"
                /\ outcome' = outcome
    /\ UNCHANGED <<question, documents, context, prompt, calls>>

\* a variant of Context: the contents joined by a single newline
ContextSingleNewline(docs) == join(<<"\n">>, [i \in 1..Len(docs) |-> docs[i].page_content])

\* line 88: the documents' contents joined by a blank line
Context(docs) == join(<<"\n", "\n">>, [i \in 1..Len(docs) |-> docs[i].page_content])

\* a variant of Retrieve: the prompt is built once and kept for the later attempts
RetrieveCachedPrompt(res) ==
    /\ pc = "retrieving"
    /\ LET made == Append(calls, RetrieveCall(validated_question, res))
       IN  IF res.raised
           THEN /\ HandleFailure(res.error, made)
                /\ UNCHANGED <<documents, context, prompt>>
           ELSE /\ documents' = res.value
                /\ context' = Context(res.value)
                /\ prompt' = IF prompt = <<>>
                             THEN _build_prompt(validated_question, context')
                             ELSE prompt
                /\ calls' = made
                /\ pc' = "generating"
                /\ UNCHANGED <<last_error, outcome>>
    /\ UNCHANGED <<question, validated_question, attempt>>

\* a variant of Retrieve: the retrieval call is outside the try block
RetrieveUncaught(res) ==
    /\ pc = "retrieving"
    /\ LET made == Append(calls, RetrieveCall(validated_question, res))
       IN  IF res.raised
           THEN /\ outcome' = res
                /\ pc' = "done"
                /\ calls' = made
                /\ UNCHANGED <<documents, context, prompt, last_error>>
           ELSE /\ documents' = res.value
                /\ context' = Context(res.value)
                /\ prompt' = _build_prompt(validated_question, context')
                /\ calls' = made
                /\ pc' = "generating"
                /\ UNCHANGED <<last_error, outcome>>
    /\ UNCHANGED <<question, validated_question, attempt>>

\* a variant of Retrieve: an empty list of documents is treated as a failure
RetrieveRejectsEmpty(res) ==
    /\ pc = "retrieving"
    /\ LET made == Append(calls, RetrieveCall(validated_question, res))
       IN  IF res.raised \/ res.value = <<>>
           THEN /\ HandleFailure(IF res.raised THEN res.error
                                 ELSE ValueError("No documents found"), made)
                /\ UNCHANGED <<documents, context, prompt>>
           ELSE /\ documents' = res.value
                /\ context' = Context(res.value)
                /\ prompt' = _build_prompt(validated_question, context')
                /\ calls' = made
                /\ pc' = "generating"
                /\ UNCHANGED <<last_error, outcome>>
    /\ UNCHANGED <<question, validated_question, attempt>>

\* line 83-90, 98-108: retrieval returns or raises; context and prompt are built
\* a variant of Retrieve: the question as the caller gave it is used for the query and
\* the prompt
RetrieveRawQuestion(res) ==
    /\ pc = "retrieving"
    /\ LET made == Append(calls, RetrieveCall(question, res))
       IN  IF res.raised
           THEN /\ HandleFailure(res.error, made)
                /\ UNCHANGED <<documents, context, prompt>>
           ELSE /\ documents' = res.value
                /\ context' = Context(res.value)
                /\ prompt' = _build_prompt(question, context')
                /\ calls' = made
                /\ pc' = "generating"
                /\ UNCHANGED <<last_error, outcome>>
    /\ UNCHANGED <<question, validated_question, attempt>>

Retrieve(res) ==
    /\ pc = "retrieving"
    /\ LET made == Append(calls, RetrieveCall(validated_question, res))
       IN  IF res.raised
           THEN /\ HandleFailure(res.error, made)
                /\ UNCHANGED <<documents, context, prompt>>
           ELSE /\ documents' = res.value
                /\ context' = Context(res.value)
                /\ prompt' = _build_prompt(validated_question, context')
                /\ calls' = made
                /\ pc' = "generating"
                /\ UNCHANGED <<last_error, outcome>>
    /\ UNCHANGED <<question, validated_question, attempt>>

\* a variant of Generate: the valid answer is kept and returned after the loop
GenerateContinues(res) ==
    /\ pc = "generating"
    /\ LET made == Append(calls, GenerateCall(prompt, res))
       IN  IF res.raised
           THEN HandleFailure(res.error, made) /\ attempt' = attempt
           ELSE LET validated_answer == ValidatedAnswers[res.value]
                IN  IF validated_answer.raised
                    THEN HandleFailure(validated_answer.error, made) /\ attempt' = attempt
                    ELSE /\ outcome' = validated_answer
                         /\ calls' = made
                         /\ UNCHANGED last_error
                         /\ IF attempt < max_retries - 1
                            THEN pc' = "retrieving" /\ attempt' = attempt + 1
                            ELSE pc' = "done" /\ attempt' = attempt
    /\ UNCHANGED <<question, validated_question, documents, context, prompt>>

\* a variant of Generate: the output validation is outside the try block
GenerateInvalidPropagates(res) ==
    /\ pc = "generating"
    /\ LET made == Append(calls, GenerateCall(prompt, res))
       IN  IF res.raised
           THEN HandleFailure(res.error, made)
           ELSE /\ outcome' = ValidatedAnswers[res.value]
                /\ pc' = "done"
                /\ calls' = made
                /\ UNCHANGED last_error
    /\ UNCHANGED <<question, validated_question, attempt, documents, context, prompt>>

\* line 92-108: generation returns or raises; the answer is validated and returned
\* a variant of Generate: a backoff sleep is made after the valid answer too
GenerateSleepsAfterSuccess(res) ==
    /\ pc = "generating"
    /\ LET made == Append(calls, GenerateCall(prompt, res))
       IN  IF res.raised
           THEN HandleFailure(res.error, made)
           ELSE LET validated_answer == ValidatedAnswers[res.value]
                IN  IF validated_answer.raised
                    THEN HandleFailure(validated_answer.error, made)
                    ELSE /\ outcome' = validated_answer
                         /\ pc' = "done"
                         /\ calls' = Append(made, SleepCall(wait_time(attempt)))
                         /\ UNCHANGED last_error
    /\ UNCHANGED <<question, validated_question, attempt, documents, context, prompt>>

Generate(res) ==
    /\ pc = "generating"
    /\ LET made == Append(calls, GenerateCall(prompt, res))
       IN  IF res.raised
           THEN HandleFailure(res.error, made)
           ELSE LET validated_answer == ValidatedAnswers[res.value]
                IN  IF validated_answer.raised
                    THEN HandleFailure(validated_answer.error, made)
                    ELSE /\ outcome' = validated_answer
                         /\ pc' = "done"
                         /\ calls' = made
                         /\ UNCHANGED last_error
    /\ UNCHANGED <<question, validated_question, attempt, documents, context, prompt>>

\* a variant of Wake: the next attempt generates from the prompt it has, without retrieving
WakeToGenerate ==
    /\ pc = "sleeping"
    /\ attempt' = attempt + 1
    /\ pc' = "generating"
    /\ UNCHANGED <<question, validated_question, last_error, documents, context, prompt,
                   outcome, calls>>

\* line 106, 81: asyncio.sleep returns and the loop takes the next attempt
Wake ==
    /\ pc = "sleeping"
    /\ attempt' = attempt + 1
    /\ pc' = "retrieving"
    /\ UNCHANGED <<question, validated_question, last_error, documents, context, prompt,
                   outcome, calls>>

Next ==
    \/ Validate /\ UNCHANGED others
    \/ \E res \in RetrieveResults : Retrieve(res) /\ UNCHANGED others
    \/ \E res \in GenerateResults : Generate(res) /\ UNCHANGED others
    \/ Wake /\ UNCHANGED others

Spec == Init /\ [][Next]_<<vars, others>>


\* every awaited call (retrieve_documents, generate, asyncio.sleep) eventually returns
\* or raises, so a step that can be taken is eventually taken
SpecFair == Init /\ [][Next]_<<vars, others>> /\ WF_<<vars, others>>(Next)

(***************************************************************************)
(* What one execute did, read from the calls it made                       *)
(***************************************************************************)
IsRetrieve(c) == c.op = "retrieve_documents"

IsGenerate(c) == c.op = "generate"

IsSleep(c) == c.op = "sleep"

RetrieveCalls == SelectSeq(calls, IsRetrieve)

GenerateCalls == SelectSeq(calls, IsGenerate)

SleepDelays == LET s == SelectSeq(calls, IsSleep) IN [i \in 1..Len(s) |-> s[i].delay]

Ops == [i \in 1..Len(calls) |-> calls[i].op]

Done == pc = "done"

QuestionValid == ~ValidatedQuestions[question].raised

Returned == Done /\ ~outcome.raised

Exhausted == Done /\ QuestionValid /\ outcome.raised

\* the generate call returned a text that passes output validation
Passes(c) == IsGenerate(c) /\ ~c.result.raised /\ ~ValidatedAnswers[c.result.value].raised

\* the generate call returned a text that fails output validation
InvalidOutput(c) == IsGenerate(c) /\ ~c.result.raised /\ ValidatedAnswers[c.result.value].raised

\* the error of a retrieve or generate call that made its attempt fail
AttemptError(c) ==
    IF c.result.raised THEN c.result.error ELSE ValidatedAnswers[c.result.value].error

\* the 0-based index of the attempt that made call j
AttemptOf(j) == Cardinality({i \in 1..j : IsRetrieve(calls[i])}) - 1

RetrievalNeverFailed == \A i \in 1..Len(RetrieveCalls) : ~RetrieveCalls[i].result.raised

GenerationAlwaysFailed == \A i \in 1..Len(GenerateCalls) : GenerateCalls[i].result.raised

\* the backoff after a failed attempt: 1s after attempt 0, 2s after attempt 1
Backoff(a) == IF a = 0 THEN 1 ELSE 2

(***************************************************************************)
(* C1: when every generation call raises (retrieval working), execute on a *)
(* valid question ends after exactly 3 generation calls, with sleeps of 1s *)
(* after attempt 0 and 2s after attempt 1 and no other, and raises the     *)
(* exhaustion error: it returns no value.                                  *)
(***************************************************************************)
C1_RetryExhaustion ==
    (Done /\ QuestionValid /\ RetrievalNeverFailed /\ GenerationAlwaysFailed) =>
        /\ Len(GenerateCalls) = 3
        /\ SleepDelays = <<1, 2>>
        /\ Ops = <<"retrieve_documents", "generate", "sleep",
                   "retrieve_documents", "generate", "sleep",
                   "retrieve_documents", "generate">>
        /\ outcome.raised
        /\ outcome.error.type = "Exception"
        /\ outcome.error.msg = "Failed to generate RAG answer after 3 attempts: API error"

C1_Witness ==
    /\ Done /\ QuestionValid /\ RetrievalNeverFailed /\ GenerationAlwaysFailed
    /\ Len(GenerateCalls) = 3
    /\ outcome.raised

(***************************************************************************)
(* C2: a question InputValidator rejects makes execute raise that          *)
(* validation error at once: no retrieval call, no generation call and no  *)
(* sleep is ever made.                                                     *)
(***************************************************************************)
C2_InvalidInputNotRetried ==
    ~QuestionValid =>
        /\ pc \in {"start", "done"}
        /\ calls = <<>>
        /\ Done => /\ outcome.raised
                   /\ outcome.error.type = "ValueError"
                   /\ outcome = ValidatedQuestions[question]

C2_Witness == Done /\ ~QuestionValid /\ outcome.raised /\ calls = <<>>

(***************************************************************************)
(* C3: every value execute returns is non-empty, has trimmed length at     *)
(* least 5, matches no hallucination pattern, and is the validated form of *)
(* the raw answer of the generation call that succeeded.                   *)
(***************************************************************************)
C3_ReturnedAnswerInvariant ==
    Returned =>
        /\ outcome.value # <<>>
        /\ Len(strip(outcome.value)) >= 5
        /\ \A p \in 1..Len(HALLUCINATION_PATTERNS) :
               ~re_search(HALLUCINATION_PATTERNS[p], outcome.value)
        /\ GenerateCalls # <<>>
        /\ LET raw == GenerateCalls[Len(GenerateCalls)].result
           IN  ~raw.raised /\ outcome.value = strip(raw.value)

C3_Witness == Returned /\ Len(RetrieveCalls) > 1 /\ outcome.value = <<"A", "I", " ", "c", "o", "n", "s", "u", "l", "t", "i", "n", "g", ".">>

(***************************************************************************)
(* C4: with retrieval working, if generation fails on attempts 0 and 1 and *)
(* gives a valid answer on attempt 2, execute returns that answer after    *)
(* exactly 3 generation calls; in general the first passing attempt, of    *)
(* index i < 3, ends execute with its answer after i+1 generation calls,   *)
(* and execute does not give up before the third generation call.          *)
(***************************************************************************)
C4_RetrySuccess ==
    LET g == GenerateCalls
    IN  RetrievalNeverFailed =>
            /\ Exhausted => (Len(g) = 3 /\ \A j \in 1..3 : ~Passes(g[j]))
            /\ \A j \in 1..Len(g) :
                   Passes(g[j]) =>
                       /\ j = Len(g)
                       /\ j <= 3
                       /\ AttemptOf(Len(calls)) = j - 1
                       /\ Returned
                       /\ outcome.value = strip(g[j].result.value)

C4_Witness ==
    /\ Returned /\ RetrievalNeverFailed
    /\ Len(GenerateCalls) = 3
    /\ GenerateCalls[1].result.raised
    /\ GenerateCalls[2].result.raised
    /\ outcome.value = <<"a", "b", "c", "d", "e">>

(***************************************************************************)
(* C5: once a generation call's output passes validation execute returns   *)
(* it at once: that call is the last call execute makes (no retrieval, no  *)
(* generation and no sleep follows it).                                    *)
(***************************************************************************)
C5_ReturnsImmediately ==
    \A j \in 1..Len(calls) :
        Passes(calls[j]) =>
            /\ j = Len(calls)
            /\ Done
            /\ outcome = Return(strip(calls[j].result.value))

C5_Witness == Returned /\ Len(calls) = 2 /\ Passes(calls[2])

(***************************************************************************)
(* C6: an answer that fails output validation is never returned: its       *)
(* attempt fails like one whose call raised, with the same backoff and a   *)
(* fresh attempt (retrieval, then generation), within the same budget of 3 *)
(* attempts, after which execute raises.                                   *)
(***************************************************************************)
C6_InvalidOutputRetried ==
    /\ Len(RetrieveCalls) <= 3
    /\ \A j \in 1..Len(calls) :
           InvalidOutput(calls[j]) =>
               /\ ~(Returned /\ j = Len(calls))
               /\ j = Len(calls) =>
                      /\ AttemptOf(j) = 2
                      /\ Exhausted
                      /\ outcome.error.msg = "Failed to generate RAG answer after 3 attempts: "
                                              \o AttemptError(calls[j]).msg
               /\ j < Len(calls) =>
                      /\ AttemptOf(j) < 2
                      /\ calls[j + 1] = SleepCall(Backoff(AttemptOf(j)))
               /\ j + 1 < Len(calls) => IsRetrieve(calls[j + 2])
               /\ (j + 2 < Len(calls) /\ ~calls[j + 2].result.raised) => IsGenerate(calls[j + 3])

C6_Witness ==
    /\ Returned
    /\ Len(GenerateCalls) = 2
    /\ InvalidOutput(GenerateCalls[1])
    /\ Passes(GenerateCalls[2])

C9_RetrievalFailureRetried ==
    /\ Len(RetrieveCalls) <= 3
    /\ \A j \in 1..Len(calls) :
           (IsRetrieve(calls[j]) /\ calls[j].result.raised) =>
               /\ j = Len(calls) =>
                      /\ AttemptOf(j) = 2
                      /\ Exhausted
                      /\ outcome.error.msg =
                             "Failed to generate RAG answer after 3 attempts: connection refused"
               /\ j < Len(calls) =>
                      /\ AttemptOf(j) < 2
                      /\ calls[j + 1] = SleepCall(Backoff(AttemptOf(j)))
               /\ j + 1 < Len(calls) => IsRetrieve(calls[j + 2])
    /\ (Done /\ QuestionValid /\ \A i \in 1..Len(RetrieveCalls) : RetrieveCalls[i].result.raised)
           => /\ Len(RetrieveCalls) = 3
              /\ GenerateCalls = <<>>
              /\ SleepDelays = <<1, 2>>
              /\ outcome.raised
              /\ outcome.error.type = "Exception"

C9_Witness ==
    /\ Exhausted
    /\ Len(RetrieveCalls) = 3
    /\ \A i \in 1..3 : RetrieveCalls[i].result.raised
    /\ GenerateCalls = <<>>

(***************************************************************************)
(* C10: a retrieval that returns no document does not fail the attempt:    *)
(* generation is called next, with the prompt whose context is the empty   *)
(* string, and a valid answer to it is returned.                           *)
(***************************************************************************)
C10_EmptyRetrievalTolerated ==
    LET empty_context_prompt ==
            <<"Y", "o", "u", " ", "a", "r", "e", " ", "a", " ", "h", "e", "l", "p", "f", "u", "l", " ", "a", "s", "s", "i", "s", "t", "a", "n", "t", ".", " ", "U", "s", "e", " ", "t", "h", "e", " ", "c", "o", "n", "t", "e", "x", "t", " ", "b", "e", "l", "o", "w", " ", "t", "o", " ", "a", "n", "s", "w", "e", "r", " ", "t", "h", "e", " ", "q", "u", "e", "s", "t", "i", "o", "n", ".", "\n", "\n", "C", "o", "n", "t", "e", "x", "t", ":", "\n", "\n", "\n", "Q", "u", "e", "s", "t", "i", "o", "n", ":", " ">>
            \o ValidatedQuestions[question].value \o <<"\n", "\n", "A", "n", "s", "w", "e", "r", ":">>
    IN  \A j \in 1..Len(calls) :
            (IsRetrieve(calls[j]) /\ calls[j].result = Return(<<>>)) =>
                /\ j = Len(calls) =>
                       /\ pc = "generating"
                       /\ context = <<>>
                       /\ prompt = empty_context_prompt
                /\ j < Len(calls) =>
                       /\ IsGenerate(calls[j + 1])
                       /\ calls[j + 1].prompt = empty_context_prompt
                       /\ Passes(calls[j + 1]) =>
                              /\ Returned
                              /\ outcome.value = strip(calls[j + 1].result.value)

C10_Witness ==
    /\ Returned
    /\ Len(calls) = 2
    /\ calls[1].result = Return(<<>>)
    /\ outcome.value = <<"A", "I", " ", "c", "o", "n", "s", "u", "l", "t", "i", "n", "g", ".">>

\* the call awaited when the pipeline is suspended: at most one, by the one place
\* execute is at
InFlight ==
    CASE pc = "retrieving" -> {"retrieve_documents"}
      [] pc = "generating" -> {"generate"}
      [] pc = "sleeping"   -> {"sleep"}
      [] OTHER             -> {}

\* C20: the steps of execute are strictly sequential. No call is made before input
\* validation has succeeded and the first call is a retrieval; a generation call is in
\* flight, or was made, only right after a retrieval of the same attempt that returned;
\* output validation gives the returned value only from the result of the generation
\* call that just returned; the calls follow one another (retrieval, generation,
\* sleep, retrieval, ...) and at most one is in flight.
C20_StrictlySequential ==
    /\ (calls # <<>> \/ InFlight # {}) =>
            /\ QuestionValid
            /\ validated_question = ValidatedQuestions[question].value
    /\ calls # <<>> => IsRetrieve(calls[1])
    /\ pc = "start" => calls = <<>>
    /\ \A j \in 1..Len(calls) :
          /\ IsGenerate(calls[j]) =>
                /\ j > 1
                /\ IsRetrieve(calls[j - 1])
                /\ ~calls[j - 1].result.raised
                /\ AttemptOf(j) = AttemptOf(j - 1)
          /\ (IsRetrieve(calls[j]) /\ j > 1) => IsSleep(calls[j - 1])
          /\ IsSleep(calls[j]) =>
                /\ j > 1
                /\ ~IsSleep(calls[j - 1])
                /\ calls[j - 1].result.raised \/ InvalidOutput(calls[j - 1])
    /\ pc = "generating" =>
          /\ calls # <<>>
          /\ IsRetrieve(calls[Len(calls)])
          /\ ~calls[Len(calls)].result.raised
    /\ pc = "retrieving" => (calls = <<>> \/ IsSleep(calls[Len(calls)]))
    /\ pc = "sleeping" => IsSleep(calls[Len(calls)])
    /\ Returned =>
          /\ Passes(calls[Len(calls)])
          /\ outcome = ValidatedAnswers[calls[Len(calls)].result.value]
    /\ Cardinality(InFlight) <= 1

\* a second attempt's generation is in flight, after its own retrieval returned
C20_Witness ==
    /\ pc = "generating"
    /\ attempt = 1
    /\ Len(calls) = 4
    /\ calls[4].result.value # <<>>

\* the call made its attempt fail
Failed(c) == ~IsSleep(c) /\ (c.result.raised \/ InvalidOutput(c))

\* C26: a backoff sleep is made only right after a call that made an attempt other
\* than the final one fail, and lasts 2^attempt seconds for that attempt's index; none
\* is made before the first attempt, after the final failed attempt or after a valid
\* answer, so the sleeps of one execute are none, 1s, or 1s then 2s.
C26_BackoffPlacement ==
    /\ \A j \in 1..Len(calls) :
          /\ IsSleep(calls[j]) =>
                /\ j > 1
                /\ Failed(calls[j - 1])
                /\ AttemptOf(j - 1) < MAX_RETRIES - 1
                /\ calls[j].delay = 2 ^ AttemptOf(j - 1)
          /\ (Failed(calls[j]) /\ AttemptOf(j) = MAX_RETRIES - 1) => j = Len(calls)
          /\ Passes(calls[j]) => j = Len(calls)
    /\ pc \in {"start", "retrieving"} /\ attempt = 0 => calls = <<>>
    /\ SleepDelays \in {<<>>, <<1>>, <<1, 2>>}

\* an answer is returned on the third attempt, after a sleep of 1s and one of 2s
C26_Witness ==
    /\ Returned
    /\ SleepDelays = <<1, 2>>
    /\ calls[1].result.raised
    /\ ~calls[Len(calls) - 1].result.raised

\* s ends with t
EndsWith(s, t) == Len(t) <= Len(s) /\ SubSeq(s, Len(s) - Len(t) + 1, Len(s)) = t

\* C27: at every point of execute there are at most as many generation calls as
\* retrieval calls and at most 3 of these; the attempts made each have exactly one
\* retrieval call and at most one generation call; the query of every retrieval call
\* and the question in the prompt of every generation call are the validated question.
C27_CallCounts ==
    /\ Len(GenerateCalls) <= Len(RetrieveCalls)
    /\ Len(RetrieveCalls) <= 3
    /\ pc = "retrieving" => Len(RetrieveCalls) = attempt
    /\ pc \in {"generating", "sleeping"} => Len(RetrieveCalls) = attempt + 1
    /\ (Done /\ QuestionValid) => Len(RetrieveCalls) = attempt + 1
    /\ pc = "generating" => Len(GenerateCalls) <= attempt
    /\ \A i, j \in 1..Len(calls) :
          (i < j /\ IsGenerate(calls[i]) /\ IsGenerate(calls[j])) => AttemptOf(i) < AttemptOf(j)
    /\ pc \in {"sleeping", "done"} => Len(GenerateCalls) <= attempt + 1
    /\ \A j \in 1..Len(calls) :
          /\ IsRetrieve(calls[j]) => calls[j].query = ValidatedQuestions[question].value
          /\ IsGenerate(calls[j]) =>
                EndsWith(calls[j].prompt,
                         <<"\n", "\n", "Q", "u", "e", "s", "t", "i", "o", "n", ":", " ">>
                         \o ValidatedQuestions[question].value
                         \o <<"\n", "\n", "A", "n", "s", "w", "e", "r", ":">>)

\* three retrieval calls and two generation calls are made for a question that
\* validation changed
C27_Witness ==
    /\ Done
    /\ Len(RetrieveCalls) = 3
    /\ Len(GenerateCalls) = 2
    /\ ValidatedQuestions[question].value # strip(question)


\* the last call execute made
LastCall == calls[Len(calls)]

\* execute returned the validated text of its last call, a generation that passes
ReturnedValidatedAnswer ==
    /\ ~outcome.raised
    /\ outcome.error = None
    /\ calls # <<>>
    /\ Passes(LastCall)
    /\ outcome.value = ValidatedAnswers[LastCall.result.value].value

\* execute raised: the question was rejected, or the final attempt failed
RaisedError ==
    /\ outcome.raised
    /\ outcome.error # None
    /\ \/ ~QuestionValid
       \/ calls # <<>> /\ Failed(LastCall)

\* C25: with every awaited call eventually returning or raising, every execute
\* terminates, and in exactly one of two ways: it returns the validated answer of a
\* generation that passes, or it raises an error; a failed final attempt or a rejected
\* question never ends in a normal return.
C25_Termination ==
    /\ <>Done
    /\ [](Done => /\ ReturnedValidatedAnswer \/ RaisedError
                  /\ ~(ReturnedValidatedAnswer /\ RaisedError))

\* execute ended by raising after its third attempt failed at generation
C25_Witness ==
    /\ Done
    /\ RaisedError
    /\ AttemptOf(Len(calls)) = 2
    /\ IsGenerate(calls[Len(calls)])

(***************************************************************************)
(* The ask endpoints: /api/v1/ask calls AnswerQuestionUseCase.execute,     *)
(* /ask calls services.rag_service.get_rag_answer; TimeoutMiddleware wraps *)
(* both.                                                                   *)
(***************************************************************************)
Endpoints == {"/api/v1/ask", "/ask"}

\* main.py, Query(min_length=1, max_length=500)
QUERY_MIN_LENGTH == 1

QUERY_MAX_LENGTH == 500

\* rag_service.py, search_kwargs={"k": 3}
CHAIN_K == 3

\* rag_service.py, temperature=0.7
CHAIN_TEMPERATURE == "0.7"

\* main.py, TimeoutMiddleware, timeout=300.0
TIMEOUT == "300.0"

\* what retrieval can do while a request is served
HttpRetrieveResults ==
    { Raise(Exception("connection refused")), Return(<<>>), Return(<<Document(<<"A", "I", ".">>)>>) }

\* what generation can do while a request is served
HttpGenerateResults ==
    { Raise(Exception("API error")), Raise(Exception("rate limit exceeded")),
      Return(<<>>), Return(<<" ", "A", "I", " ", "c", "o", "n", "s", "u", "l", "t", "i", "n", "g", ".", "\n">>) }

\* rag_service.py, _get_prompt_template, filled by the chain
ChainPrompt(q, ctx) ==
    <<"U", "s", "e", " ", "t", "h", "e", " ", "c", "o", "n", "t", "e", "x", "t", " ", "b", "e", "l", "o", "w", " ", "t", "o", " ", "a", "n", "s", "w", "e", "r", " ", "t", "h", "e", " ", "q", "u", "e", "s", "t", "i", "o", "n", ".", "\n", "\n", "C", "o", "n", "t", "e", "x", "t", ":", " ", "I", "n", " ", "M", "a", "y", " ", "2", "0", "2", "3", ",", " ", "P", "r", "o", "m", "t", "i", "o", "r", " ", "w", "a", "s", " ", "f", "o", "u", "n", "d", "e", "d", " ", "f", "a", "c", "i", "n", "g", " ", "t", "h", "i", "s", " ", "c", "o", "n", "t", "e", "x", "t", ".", "\n", "Q", "u", "e", "s", "t", "i", "o", "n", ":", " ", "W", "h", "e", "n", " ", "w", "a", "s", " ", "P", "r", "o", "m", "t", "i", "o", "r", " ", "f", "o", "u", "n", "d", "e", "d", "?", "\n", "A", "n", "s", "w", "e", "r", ":", " ", "I", "n", " ", "M", "a", "y", " ", "2", "0", "2", "3", "\n", "\n", "C", "o", "n", "t", "e", "x", "t", ":", " ", "P", "r", "o", "m", "t", "i", "o", "r", " ", "o", "f", "f", "e", "r", "s", " ", "A", "I", " ", "c", "o", "n", "s", "u", "l", "t", "i", "n", "g", " ", "s", "e", "r", "v", "i", "c", "e", "s", ".", "\n", "Q", "u", "e", "s", "t", "i", "o", "n", ":", " ", "W", "h", "a", "t", " ", "d", "o", "e", "s", " ", "P", "r", "o", "m", "t", "i", "o", "r", " ", "d", "o", "?", "\n", "A", "n", "s", "w", "e", "r", ":", " ", "P", "r", "o", "m", "t", "i", "o", "r", " ", "o", "f", "f", "e", "r", "s", " ", "A", "I", " ", "c", "o", "n", "s", "u", "l", "t", "i", "n", "g", " ", "s", "e", "r", "v", "i", "c", "e", "s", "\n", "\n", "C", "o", "n", "t", "e", "x", "t", ":", " ">>
    \o ctx \o <<"\n", "Q", "u", "e", "s", "t", "i", "o", "n", ":", " ">> \o q \o <<"\n", "A", "n", "s", "w", "e", "r", ":">>

\* the retriever call of the chain
ChainRetrieveCall(query, res) ==
    [op |-> "retrieve_documents", query |-> query, k |-> CHAIN_K, result |-> res]

\* the LLM call of the chain
ChainGenerateCall(p, res) ==
    [op |-> "generate", prompt |-> p, temperature |-> CHAIN_TEMPERATURE, result |-> res]

CancelledError == [type |-> "CancelledError", msg |-> "", cause |-> None]

Response(status_code, body) == [status_code |-> status_code, body |-> body]

\* fastapi.HTTPException as FastAPI renders it
HTTPException(status_code, detail) == Response(status_code, [detail |-> detail])

\* the response of ask_question (routes.py and main.py) to what the pipeline did
ask_question(q, result) ==
    IF result.raised
    THEN HTTPException(500, "Error processing question: " \o result.error.msg)
    ELSE Response(200, [question |-> q, answer |-> result.value, status |-> "success"])

\* the response of TimeoutMiddleware.dispatch when the time is over
TimeoutResponse ==
    Response(504, [error |-> "Request timeout",
                   message |-> "The request took longer than " \o TIMEOUT \o " seconds",
                   timeout |-> TIMEOUT])

InitHttp ==
    /\ endpoint \in Endpoints
    /\ response = NoResponse
    /\ pc = "received"
    /\ question \in Questions
    /\ validated_question = <<>>
    /\ attempt = 0
    /\ last_error = None
    /\ documents = <<>>
    /\ context = <<>>
    /\ prompt = <<>>
    /\ outcome = Pending
    /\ calls = <<>>
    /\ NoValidatorCall
    /\ NoLoop
    /\ NoApp

\* call_next: the route checks the query parameter and calls ask_question
CallNext ==
    /\ pc = "received"
    /\ IF endpoint = "/ask" /\ Len(question) < QUERY_MIN_LENGTH
       THEN /\ response' = HTTPException(422, "String should have at least 1 character")
            /\ pc' = "rejected"
       ELSE IF endpoint = "/ask" /\ Len(question) > QUERY_MAX_LENGTH
       THEN /\ response' = HTTPException(422, "String should have at most 500 characters")
            /\ pc' = "rejected"
       ELSE /\ response' = response
            /\ pc' = "start"
    /\ UNCHANGED <<endpoint, question, validated_question, attempt, last_error, documents,
                   context, prompt, outcome, calls>>

\* get_rag_answer, lines 146-151: the input validation, outside the retry loop
ServiceValidate ==
    /\ pc = "start"
    /\ LET r == ValidatedQuestions[question]
       IN  IF r.raised
           THEN /\ outcome' = r
                /\ pc' = "done"
                /\ UNCHANGED <<validated_question, attempt, last_error>>
           ELSE /\ validated_question' = r.value
                /\ last_error' = None
                /\ attempt' = 0
                /\ pc' = "invoking"
                /\ outcome' = outcome
    /\ UNCHANGED <<question, documents, context, prompt, calls>>

\* get_rag_answer, lines 153-172: qa_chain.ainvoke retrieves, fills the prompt and
\* calls the LLM; its answer is validated
ChainInvoke(retrieved, generated) ==
    /\ pc = "invoking"
    /\ LET made == Append(calls, ChainRetrieveCall(validated_question, retrieved))
       IN  IF retrieved.raised
           THEN HandleFailure(retrieved.error, made)
           ELSE LET p == ChainPrompt(validated_question, Context(retrieved.value))
                    all == Append(made, ChainGenerateCall(p, generated))
                IN  IF generated.raised
                    THEN HandleFailure(generated.error, all)
                    ELSE LET validated_answer == ValidatedAnswers[generated.value]
                         IN  IF validated_answer.raised
                             THEN HandleFailure(validated_answer.error, all)
                             ELSE /\ outcome' = validated_answer
                                  /\ pc' = "done"
                                  /\ calls' = all
                                  /\ UNCHANGED last_error
    /\ UNCHANGED <<question, validated_question, attempt, documents, context, prompt>>

\* get_rag_answer, line 170: asyncio.sleep returns and the loop takes the next attempt
ServiceWake ==
    /\ pc = "sleeping"
    /\ attempt' = attempt + 1
    /\ pc' = "invoking"
    /\ UNCHANGED <<question, validated_question, last_error, documents, context, prompt,
                   outcome, calls>>

\* a variant of Respond: the validated question is sent back
RespondValidated ==
    /\ pc = "done"
    /\ response.status_code = 0
    /\ response' = ask_question(validated_question, outcome)
    /\ UNCHANGED <<endpoint, vars>>

\* ask_question: the pipeline returned or raised, the response is sent
Respond ==
    /\ pc = "done"
    /\ response.status_code = 0
    /\ response' = ask_question(question, outcome)
    /\ UNCHANGED <<endpoint, vars>>

\* the awaits at which the pipeline is suspended
Suspended == pc \in {"retrieving", "generating", "invoking", "sleeping"}

\* a variant of Timeout: the cancellation is caught as a failed attempt
TimeoutCaught ==
    /\ Suspended
    /\ response.status_code = 0
    /\ response' = TimeoutResponse
    /\ HandleFailure(CancelledError, calls)
    /\ UNCHANGED <<endpoint, question, validated_question, attempt, documents, context,
                   prompt>>

\* TimeoutMiddleware.dispatch: asyncio.wait_for cancels the suspended pipeline, whose
\* except Exception clauses let asyncio.CancelledError through, and answers 504
Timeout ==
    /\ Suspended
    /\ response.status_code = 0
    /\ response' = TimeoutResponse
    /\ pc' = "cancelled"
    /\ outcome' = Raise(CancelledError)
    /\ UNCHANGED <<endpoint, question, validated_question, attempt, last_error, documents,
                   context, prompt, calls>>

NextHttp ==
    \/ CallNext /\ UNCHANGED <<valvars, loopvars, appvars>>
    \/ endpoint = "/api/v1/ask" /\ Validate /\ UNCHANGED others
    \/ \E res \in HttpRetrieveResults : Retrieve(res) /\ UNCHANGED others
    \/ \E res \in HttpGenerateResults : Generate(res) /\ UNCHANGED others
    \/ endpoint = "/api/v1/ask" /\ Wake /\ UNCHANGED others
    \/ endpoint = "/ask" /\ ServiceValidate /\ UNCHANGED others
    \/ \E retrieved \in HttpRetrieveResults, generated \in HttpGenerateResults :
            ChainInvoke(retrieved, generated) /\ UNCHANGED others
    \/ endpoint = "/ask" /\ ServiceWake /\ UNCHANGED others
    \/ Respond /\ UNCHANGED <<valvars, loopvars, appvars>>
    \/ Timeout /\ UNCHANGED <<valvars, loopvars, appvars>>

SpecHttp == InitHttp /\ [][NextHttp]_<<vars, others>>

Responded == response.status_code # 0

TimedOut == response.status_code = 504

\* C11: every retrieval call is made with k = 5 and every generation call with
\* temperature 0.1, on every attempt, behind /api/v1/ask and behind /ask.
C11_FixedKAndTemperature ==
    \A j \in 1..Len(calls) :
        /\ IsRetrieve(calls[j]) => calls[j].k = 5
        /\ IsGenerate(calls[j]) => calls[j].temperature = "0.1"

\* C16: a question that fails input validation is answered with a 4xx status, a
\* question whose attempts are exhausted with a 500 or 503 status, and the two never
\* with a status of the same class.
C16_ErrorMapping ==
    Responded =>
        /\ ~QuestionValid => response.status_code \in 400..499
        /\ Exhausted => response.status_code \in {500, 503}

\* the error messages a provider can give
ProviderMessages == {"API error", "rate limit exceeded", "connection refused"}

\* C17: the response to a question whose attempts are exhausted is the one that would
\* have been sent had the provider's error message been any other.
C17_ResponseIndependentOfProviderError ==
    (Responded /\ Exhausted /\ last_error.type = "Exception") =>
        \A m \in ProviderMessages :
            response = ask_question(question, Raise(Exhaustion(Exception(m))))

\* C23: when the pipeline returns an answer, the endpoint responds 200 with status
\* "success", that answer, and the question as the caller sent it, not the validated
\* one; a 200 response is sent in no other case.
C23_SuccessResponse ==
    Responded =>
        /\ (pc = "done" /\ ~outcome.raised) =>
              /\ response.status_code = 200
              /\ response.body.status = "success"
              /\ response.body.answer = outcome.value
              /\ response.body.question = question
        /\ response.status_code = 200 => (pc = "done" /\ ~outcome.raised)

\* a success response to a question that validation changed, on /ask
C23_Witness ==
    /\ Responded
    /\ endpoint = "/ask"
    /\ response.status_code = 200
    /\ validated_question # question
    /\ response.body.question = question

MaxTasks == 2

Tasks == 1..MaxTasks

Implementations == {"use_case", "rag_service", "rag"}

\* the first await of an attempt
FirstAwait == IF impl = "use_case" THEN "retrieving" ELSE "invoking"

\* the thread of the event loop is not held inside time.sleep
LoopFree == \A u \in Tasks : tasks[u].pc # "blocked"

InitLoop ==
    /\ impl \in Implementations
    /\ tasks = [t \in Tasks |-> [pc |-> "submitted", attempt |-> 0]]
    /\ NoExecute
    /\ NoValidatorCall
    /\ NoRequest
    /\ NoApp

\* the except clause of the retry loop: back off, or leave the loop and raise;
\* rag.py line 366 backs off with time.sleep, the other two with await asyncio.sleep
TaskFailure(t) ==
    IF tasks[t].attempt < max_retries - 1
    THEN tasks' = [tasks EXCEPT ![t].pc = IF impl = "rag" THEN "blocked" ELSE "sleeping"]
    ELSE tasks' = [tasks EXCEPT ![t].pc = "raised"]

\* the coroutine starts: input validation, then the first await
TaskStart(t, valid) ==
    /\ LoopFree
    /\ tasks[t].pc = "submitted"
    /\ tasks' = [tasks EXCEPT ![t].pc = IF valid THEN FirstAwait ELSE "raised"]
    /\ UNCHANGED impl

\* await retrieve_documents is over
TaskRetrieved(t, ok) ==
    /\ LoopFree
    /\ tasks[t].pc = "retrieving"
    /\ IF ok THEN tasks' = [tasks EXCEPT ![t].pc = "generating"] ELSE TaskFailure(t)
    /\ UNCHANGED impl

\* await generate is over, the answer is validated
TaskGenerated(t, ok) ==
    /\ LoopFree
    /\ tasks[t].pc = "generating"
    /\ IF ok THEN tasks' = [tasks EXCEPT ![t].pc = "returned"] ELSE TaskFailure(t)
    /\ UNCHANGED impl

\* await qa_chain.ainvoke is over, the answer is validated
TaskInvoked(t, ok) ==
    /\ LoopFree
    /\ tasks[t].pc = "invoking"
    /\ IF ok THEN tasks' = [tasks EXCEPT ![t].pc = "returned"] ELSE TaskFailure(t)
    /\ UNCHANGED impl

\* await asyncio.sleep is over: the next attempt
TaskWake(t) ==
    /\ LoopFree
    /\ tasks[t].pc = "sleeping"
    /\ tasks' = [tasks EXCEPT ![t] = [pc |-> FirstAwait, attempt |-> @.attempt + 1]]
    /\ UNCHANGED impl

\* time.sleep is over: the coroutine, which kept the thread, goes on to the next attempt
TaskUnblock(t) ==
    /\ tasks[t].pc = "blocked"
    /\ tasks' = [tasks EXCEPT ![t] = [pc |-> FirstAwait, attempt |-> @.attempt + 1]]
    /\ UNCHANGED impl

\* any step of the pipeline of request t
TaskStep(t) ==
    \/ \E valid \in BOOLEAN : TaskStart(t, valid)
    \/ \E ok \in BOOLEAN : TaskRetrieved(t, ok)
    \/ \E ok \in BOOLEAN : TaskGenerated(t, ok)
    \/ \E ok \in BOOLEAN : TaskInvoked(t, ok)
    \/ TaskWake(t)
    \/ TaskUnblock(t)

NextLoop ==
    \/ \E t \in Tasks, valid \in BOOLEAN : TaskStart(t, valid) /\ UNCHANGED <<vars, valvars, httpvars, appvars>>
    \/ \E t \in Tasks, ok \in BOOLEAN : TaskRetrieved(t, ok) /\ UNCHANGED <<vars, valvars, httpvars, appvars>>
    \/ \E t \in Tasks, ok \in BOOLEAN : TaskGenerated(t, ok) /\ UNCHANGED <<vars, valvars, httpvars, appvars>>
    \/ \E t \in Tasks, ok \in BOOLEAN : TaskInvoked(t, ok) /\ UNCHANGED <<vars, valvars, httpvars, appvars>>
    \/ \E t \in Tasks : TaskWake(t) /\ UNCHANGED <<vars, valvars, httpvars, appvars>>
    \/ \E t \in Tasks : TaskUnblock(t) /\ UNCHANGED <<vars, valvars, httpvars, appvars>>

SpecLoop == InitLoop /\ [][NextLoop]_<<vars, others>>

\* request t is in the backoff between two attempts
InBackoff(t) == tasks[t].pc \in {"sleeping", "blocked"}

\* the pipeline of request t has not ended
Unfinished(t) == tasks[t].pc \notin {"returned", "raised"}

\* C18: while a request is in the backoff between two attempts, every other request
\* whose pipeline has not ended can take its next step, whichever implementation of
\* the pipeline they run.
C18_BackoffDoesNotBlock ==
    \A t, u \in Tasks :
        (t # u /\ InBackoff(t) /\ Unfinished(u)) => ENABLED TaskStep(u)

(***************************************************************************)
(* Two execute calls on one AnswerQuestionUseCase instance. The instance   *)
(* holds its four collaborators and nothing else (lines 39-42); the        *)
(* validated question, max_retries, last_error and attempt are locals of   *)
(* the coroutine frame of each call. Each call records in script the       *)
(* responses it was given: "ok" or "err" for a retrieval or a generation   *)
(* (a generated text OutputValidator rejects counts as "err"), "woke" for  *)
(* the end of a sleep. The error raised by the n-th collaborator call of a *)
(* request is named n, and so is the answer it returned; 0 is None.        *)
(***************************************************************************)
\* a variant of FrameOf: attempt and last_error are kept on the instance
FrameOnInstance(t) == 1

\* the frame that holds the locals of call t: its own
FrameOf(t) == t

NoFrame ==
    [pc |-> "submitted", attempt |-> 0, last_error |-> 0, ncalls |-> 0,
     outcome |-> [kind |-> "pending", of |-> 0], script |-> <<>>]

InitConcurrent ==
    /\ impl = "use_case"
    /\ tasks = [t \in Tasks |-> NoFrame]
    /\ NoExecute
    /\ NoValidatorCall
    /\ NoRequest
    /\ NoApp

\* line 76: the question is validated; a rejected question ends the call
ExecuteStart(t, valid) ==
    /\ tasks[t].pc = "submitted"
    /\ tasks' = [tasks EXCEPT
                   ![t].script = Append(@, IF valid THEN "ok" ELSE "err"),
                   ![t].pc = IF valid THEN "retrieving" ELSE "done",
                   ![t].outcome = IF valid THEN @ ELSE [kind |-> "rejected", of |-> 0],
                   ![FrameOf(t)].last_error = IF valid THEN 0 ELSE @,
                   ![FrameOf(t)].attempt = IF valid THEN 0 ELSE @]
    /\ UNCHANGED impl

\* lines 98-110 for call t, whose n-th collaborator call raised
ExecuteFailure(t, n, ev) ==
    IF tasks[FrameOf(t)].attempt < max_retries - 1
    THEN tasks' = [tasks EXCEPT ![t].script = Append(@, ev),
                                ![t].ncalls = n,
                                ![t].pc = "sleeping",
                                ![FrameOf(t)].last_error = n]
    ELSE tasks' = [tasks EXCEPT ![t].script = Append(@, ev),
                                ![t].ncalls = n,
                                ![t].pc = "done",
                                ![FrameOf(t)].last_error = n,
                                ![t].outcome = [kind |-> "raised", of |-> n]]

\* lines 83-90: await retrieve_documents is over
ExecuteRetrieved(t, ok) ==
    /\ tasks[t].pc = "retrieving"
    /\ IF ok
       THEN tasks' = [tasks EXCEPT ![t].script = Append(@, "ok"),
                                   ![t].ncalls = @ + 1,
                                   ![t].pc = "generating"]
       ELSE ExecuteFailure(t, tasks[t].ncalls + 1, "err")
    /\ UNCHANGED impl

\* lines 92-96: await generate is over, the answer is validated and returned
ExecuteGenerated(t, ok) ==
    /\ tasks[t].pc = "generating"
    /\ IF ok
       THEN tasks' = [tasks EXCEPT ![t].script = Append(@, "ok"),
                                   ![t].ncalls = @ + 1,
                                   ![t].pc = "done",
                                   ![t].outcome = [kind |-> "returned", of |-> tasks[t].ncalls + 1]]
       ELSE ExecuteFailure(t, tasks[t].ncalls + 1, "err")
    /\ UNCHANGED impl

\* line 106 is over, line 81: the next attempt
ExecuteWake(t) ==
    /\ tasks[t].pc = "sleeping"
    /\ tasks' = [tasks EXCEPT ![t].script = Append(@, "woke"),
                              ![t].pc = "retrieving",
                              ![FrameOf(t)].attempt = @ + 1]
    /\ UNCHANGED impl

NextConcurrent ==
    \/ \E t \in Tasks, valid \in BOOLEAN : ExecuteStart(t, valid) /\ UNCHANGED <<vars, valvars, httpvars, appvars>>
    \/ \E t \in Tasks, ok \in BOOLEAN : ExecuteRetrieved(t, ok) /\ UNCHANGED <<vars, valvars, httpvars, appvars>>
    \/ \E t \in Tasks, ok \in BOOLEAN : ExecuteGenerated(t, ok) /\ UNCHANGED <<vars, valvars, httpvars, appvars>>
    \/ \E t \in Tasks : ExecuteWake(t) /\ UNCHANGED <<vars, valvars, httpvars, appvars>>

SpecConcurrent == InitConcurrent /\ [][NextConcurrent]_<<vars, others>>

\* one execute running alone: what it has done after being given the responses s
RECURSIVE Alone(_, _, _, _, _)
Alone(s, i, at, err, n) ==
    IF at = max_retries
    THEN [pc |-> "done", attempt |-> at - 1, last_error |-> err, ncalls |-> n,
          outcome |-> [kind |-> "raised", of |-> err]]
    ELSE IF i > Len(s)
    THEN [pc |-> "retrieving", attempt |-> at, last_error |-> err, ncalls |-> n,
          outcome |-> [kind |-> "pending", of |-> 0]]
    ELSE IF s[i] = "err"
    THEN \* retrieve_documents raised
         IF at = max_retries - 1
         THEN Alone(s, i + 1, at + 1, n + 1, n + 1)
         ELSE IF i + 1 > Len(s)
         THEN [pc |-> "sleeping", attempt |-> at, last_error |-> n + 1, ncalls |-> n + 1,
               outcome |-> [kind |-> "pending", of |-> 0]]
         ELSE Alone(s, i + 2, at + 1, n + 1, n + 1)
    ELSE IF i + 1 > Len(s)
    THEN [pc |-> "generating", attempt |-> at, last_error |-> err, ncalls |-> n + 1,
          outcome |-> [kind |-> "pending", of |-> 0]]
    ELSE IF s[i + 1] = "ok"
    THEN [pc |-> "done", attempt |-> at, last_error |-> err, ncalls |-> n + 2,
          outcome |-> [kind |-> "returned", of |-> n + 2]]
    ELSE \* generate raised, or its text was rejected
         IF at = max_retries - 1
         THEN Alone(s, i + 2, at + 1, n + 2, n + 2)
         ELSE IF i + 2 > Len(s)
         THEN [pc |-> "sleeping", attempt |-> at, last_error |-> n + 2, ncalls |-> n + 2,
               outcome |-> [kind |-> "pending", of |-> 0]]
         ELSE Alone(s, i + 3, at + 1, n + 2, n + 2)

\* execute alone, from the validation of the question on
RunAlone(s) ==
    IF s = <<>> THEN [x \in DOMAIN NoFrame \ {"script"} |-> NoFrame[x]]
    ELSE IF s[1] = "err"
    THEN [pc |-> "done", attempt |-> 0, last_error |-> 0, ncalls |-> 0,
          outcome |-> [kind |-> "rejected", of |-> 0]]
    ELSE Alone(s, 2, 0, 0, 0)

\* what call t sees of its own run: its position, its locals, its calls, its outcome
Seen(t) ==
    [pc |-> tasks[t].pc, attempt |-> tasks[FrameOf(t)].attempt,
     last_error |-> tasks[FrameOf(t)].last_error, ncalls |-> tasks[t].ncalls,
     outcome |-> tasks[t].outcome]

\* C21: whatever the interleaving of two execute calls on one instance, each call's
\* attempt counter, last error, number of collaborator calls and outcome are those of
\* the same call running alone with the same responses.
C21_NoSharedState == \A t \in Tasks : Seen(t) = RunAlone(tasks[t].script)

\* two calls in flight at once: one backs off after its second attempt failed at
\* generation, the other awaits the generation of its first attempt
C21_Witness ==
    \E t, u \in Tasks :
        /\ t # u
        /\ tasks[t].pc = "sleeping"
        /\ tasks[FrameOf(t)].attempt = 1
        /\ tasks[FrameOf(t)].last_error = 3
        /\ tasks[u].pc = "generating"
        /\ tasks[FrameOf(u)].attempt = 0
        /\ tasks[FrameOf(u)].last_error = 0

(***************************************************************************)
(* The validators called on their own                                      *)
(***************************************************************************)
\* n times the character c
Repeat(c, n) == [i \in 1..n |-> c]

LeftPads == { <<>>, <<" ">>, <<"\t", "\n">> }

RightPads == { <<>>, <<" ">>, <<"\n">> }

QuestionCores ==
    { <<>>, <<"a", "b">>, <<"a", "b", "c">>, <<"R", "&", "D">>, <<"a", "<", "b">>, <<"i", "t", "'", "s", " ", "\"", "x", "\"">>, <<"a", " ", ">", " ", "b">>,
      <<"<", "s", "c", "r", "i", "p", "t", ">", "a", "l", "e", "r", "t", "(", "1", ")", "<", "/", "s", "c", "r", "i", "p", "t", ">">>, <<"<", "S", "C", "R", "I", "P", "T", ">">>, <<"J", "a", "v", "a", "S", "c", "r", "i", "p", "t", ":", "x">>, <<"o", "n", "c", "l", "i", "c", "k", " ", "=">>, <<"o", "n", " ", "=">>,
      <<"i", "m", "p", "o", "r", "t">>, <<"i", "m", "p", "o", "r", "t", " ", "o", "s">>, <<"e", "x", "e", "c", "(">>, <<"e", "v", "a", "l", " ", "(", "x", ")">>, <<"m", "e", "d", "i", "e", "v", "a", "l">>,
      Repeat("a", MAX_LENGTH), Repeat("a", MAX_LENGTH + 1),
      Repeat("a", MAX_LENGTH - 1) \o <<"&">>, Repeat("a", MAX_LENGTH - 5) \o <<"&">>,
      Repeat("a", MAX_LENGTH - 6) \o <<"i", "m", "p", "o", "r", "t">>,
      Repeat("a", MAX_LENGTH) \o <<"<", "s", "c", "r", "i", "p", "t", ">">> }

ValidatorQuestions == {l \o c \o r : l \in LeftPads, c \in QuestionCores, r \in RightPads}

AnswerCores ==
    { <<>>, <<"a", " ", "b">>, <<"a", "b", "c", "d">>, <<"a", "b", "c", "d", "e">>, <<"A", "I", " ", "c", "o", "n", "s", "u", "l", "t", "i", "n", "g", ".">>, <<"[", "i", "n", "s", "e", "r", "t", " ", "n", "a", "m", "e", "]">>, <<"[", "2", "0", "2", "3", "]">>,
      <<"[", "2", "0", "2", "3", "4", "]">>, <<"F", "o", "u", "n", "d", "e", "d", " ", "i", "n", " ", "[", "t", "h", "e", " ", "Y", "e", "a", "r", "]", ".">>, <<"[", "a", "\n", "d", "a", "t", "e", "]">>, <<"A", "s", " ", "A", "n", " ", "A", "I", " ", "M", "o", "d", "e", "l", ",", " ", "n", "o", ".">>,
      <<"I", " ", "a", "m", " ", "a", "n", " ", "A", "I", "R">>, <<"b", "a", "s", "e", "d", " ", "o", "n", " ", "m", "y", " ", " ", "k", "n", "o", "w", "l", "e", "d", "g", "e">>, <<"I", " ", "A", "P", "O", "L", "O", "G", "I", "Z", "E", ",", " ", "b", "u", "t", " ", "I", " ", "c", "a", "n", "'", "t">> }

ValidatorAnswers == {l \o c \o r : l \in LeftPads, c \in AnswerCores, r \in RightPads}

InitValidators ==
    /\ NoExecute
    /\ NoRequest
    /\ NoLoop
    /\ NoApp
    /\ vpc = "called"
    /\ \/ validator = "InputValidator" /\ arg \in ValidatorQuestions
       \/ validator = "OutputValidator" /\ arg \in ValidatorAnswers
    /\ ret = Pending
    /\ ret_again = Pending

\* InputValidator.validate(arg)
CallInputValidator ==
    /\ vpc = "called"
    /\ validator = "InputValidator"
    /\ ret' = InputValidator_validate(arg)
    /\ vpc' = "returned"
    /\ UNCHANGED <<validator, arg, ret_again>>

\* InputValidator.validate(InputValidator.validate(arg))
CallInputValidatorAgain ==
    /\ vpc = "returned"
    /\ validator = "InputValidator"
    /\ ~ret.raised
    /\ ret_again' = InputValidator_validate(ret.value)
    /\ vpc' = "revalidated"
    /\ UNCHANGED <<validator, arg, ret>>

\* OutputValidator.validate(arg)
CallOutputValidator ==
    /\ vpc = "called"
    /\ validator = "OutputValidator"
    /\ ret' = OutputValidator_validate(arg)
    /\ vpc' = "returned"
    /\ UNCHANGED <<validator, arg, ret_again>>

NextValidators ==
    \/ CallInputValidator /\ UNCHANGED <<vars, httpvars, loopvars, appvars>>
    \/ CallInputValidatorAgain /\ UNCHANGED <<vars, httpvars, loopvars, appvars>>
    \/ CallOutputValidator /\ UNCHANGED <<vars, httpvars, loopvars, appvars>>

SpecValidators == InitValidators /\ [][NextValidators]_<<vars, others>>

\* validate raised ValueError(msg)
Rejected(r, msg) == r.raised /\ r.error.type = "ValueError" /\ r.error.msg = msg

\* some forbidden pattern is found in s
Forbidden(s) == \E p \in 1..Len(FORBIDDEN_PATTERNS) : re_search(FORBIDDEN_PATTERNS[p], s)

\* some hallucination pattern is found in s, whatever the case of its letters
Hallucination(s) ==
    \E p \in 1..Len(HALLUCINATION_PATTERNS) : re_search(HALLUCINATION_PATTERNS[p], s)

InputValidatorReturned == validator = "InputValidator" /\ vpc \in {"returned", "revalidated"}

OutputValidatorReturned == validator = "OutputValidator" /\ vpc = "returned"

\* the character entities html.escape writes
Entities == { <<"&", "a", "m", "p", ";">>, <<"&", "l", "t", ";">>, <<"&", "g", "t", ";">>, <<"&", "q", "u", "o", "t", ";">>, <<"&", "#", "x", "2", "7", ";">> }

\* s holds no character html.escape replaces, other than the & that starts an entity
IsHtmlEscaped(s) ==
    \A i \in 1..Len(s) :
        /\ s[i] \notin {"<", ">", "\"", "'"}
        /\ s[i] = "&" => \E e \in Entities :
                            /\ i + Len(e) - 1 <= Len(s)
                            /\ SubSeq(s, i, i + Len(e) - 1) = e

\* C12 as stated: the string InputValidator.validate returns has between MIN_LENGTH and
\* MAX_LENGTH characters, holds no forbidden pattern and is HTML-escaped.
C12_ReturnedLengthWithinBounds ==
    (InputValidatorReturned /\ ~ret.raised) =>
        /\ Len(ret.value) \in MIN_LENGTH..MAX_LENGTH
        /\ ~Forbidden(ret.value)
        /\ IsHtmlEscaped(ret.value)

\* C12, amended: the string InputValidator.validate returns is the HTML escape of the
\* trimmed input; the trimmed input has between MIN_LENGTH and MAX_LENGTH characters,
\* the returned string has at least MIN_LENGTH and at most 6 * MAX_LENGTH characters
\* (it is longer than MAX_LENGTH when the escapes make it so), holds no forbidden
\* pattern and is HTML-escaped.
C12_QuestionInvariant ==
    (InputValidatorReturned /\ ~ret.raised) =>
        /\ Len(strip(arg)) \in MIN_LENGTH..MAX_LENGTH
        /\ ret.value = escape(strip(arg))
        /\ Len(ret.value) \in Len(strip(arg))..(6 * MAX_LENGTH)
        /\ ~Forbidden(ret.value)
        /\ IsHtmlEscaped(ret.value)

\* a question is accepted and the string returned for it is longer than MAX_LENGTH
C12_Witness ==
    /\ InputValidatorReturned
    /\ ~ret.raised
    /\ Len(ret.value) > MAX_LENGTH
    /\ \E i \in 1..Len(arg) : arg[i] = "&"

\* C13 as stated: validating again the string InputValidator.validate returned never
\* raises.
C13_RevalidationNeverRaises ==
    (validator = "InputValidator" /\ vpc = "revalidated") => ~ret_again.raised

\* C13, amended: validating again the string InputValidator.validate returned raises
\* exactly when that string, lengthened by its escapes, has more than MAX_LENGTH
\* characters, and the error is then the too-long error; otherwise it returns the
\* string escaped once more.
C13_RevalidationRaisesOnlyTooLong ==
    (validator = "InputValidator" /\ vpc = "revalidated") =>
        IF Len(ret.value) > MAX_LENGTH
        THEN Rejected(ret_again, "Question too long (max 2000 chars)")
        ELSE ret_again = Return(escape(ret.value))

\* a returned string that the escapes changed is validated again and accepted
C13_Witness ==
    /\ validator = "InputValidator"
    /\ vpc = "revalidated"
    /\ ret.value # strip(arg)
    /\ ~ret_again.raised

\* C14 as stated: too short below MIN_LENGTH, too long above MAX_LENGTH, benign
\* questions of exactly MIN_LENGTH and MAX_LENGTH characters accepted, empty input
\* rejected as empty, and every input in which a forbidden pattern is found rejected.
C14_EveryMatchingInputRejected ==
    InputValidatorReturned =>
        LET q == strip(arg)
        IN  /\ q = <<>> => Rejected(ret, "Question cannot be empty")
            /\ (q # <<>> /\ Len(q) < 3) => Rejected(ret, "Question too short (min 3 chars)")
            /\ Len(q) > 2000 => Rejected(ret, "Question too long (max 2000 chars)")
            /\ (Len(q) \in {3, 2000} /\ ~Forbidden(arg)) => ~ret.raised
            /\ Forbidden(arg) => ret.raised

\* C14, amended: as stated, but the forbidden patterns are looked for in the trimmed
\* input: an input is rejected when a pattern is found in its trimmed form, and an
\* input in which a pattern is found only thanks to its surrounding whitespace
\* (such as "import " for import\s+) is accepted.
C14_InputValidatorBounds ==
    InputValidatorReturned =>
        LET q == strip(arg)
        IN  /\ q = <<>> => Rejected(ret, "Question cannot be empty")
            /\ (q # <<>> /\ Len(q) < 3) => Rejected(ret, "Question too short (min 3 chars)")
            /\ Len(q) > 2000 => Rejected(ret, "Question too long (max 2000 chars)")
            /\ (Len(q) \in {3, 2000} /\ ~Forbidden(q)) => ~ret.raised
            /\ (Len(q) \in 3..2000 /\ Forbidden(q)) =>
                    Rejected(ret, "Question contains forbidden patterns")
            /\ (Len(q) \in 3..2000 /\ Forbidden(arg) /\ ~Forbidden(q)) => ~ret.raised

\* a benign question of exactly MAX_LENGTH characters, surrounded by whitespace, is accepted
C14_Witness ==
    /\ InputValidatorReturned
    /\ Len(strip(arg)) = MAX_LENGTH
    /\ Len(arg) > MAX_LENGTH
    /\ ~ret.raised

\* C15: OutputValidator.validate raises the empty-response error for an empty or
\* whitespace-only answer, the too-short error for an answer of fewer than 5 characters
\* once trimmed, and an error for an answer in which a hallucination pattern is found,
\* whatever the case of its letters; every other answer is returned trimmed and
\* otherwise unchanged.
C15_OutputValidator ==
    OutputValidatorReturned =>
        LET a == strip(arg)
        IN  /\ a = <<>> => Rejected(ret, "Empty response from AI")
            /\ (a # <<>> /\ Len(a) < 5) => Rejected(ret, "Response too short to be valid")
            /\ Hallucination(arg) =>
                    /\ ret.raised
                    /\ ret.error.type = "ValueError"
                    /\ ret.error.msg \notin {"Empty response from AI",
                                              "Response too short to be valid"}
            /\ (Len(a) >= 5 /\ ~Hallucination(arg)) => ret = Return(a)

\* an answer of exactly 5 characters once trimmed is returned without its whitespace
C15_Witness ==
    /\ OutputValidatorReturned
    /\ ~ret.raised
    /\ Len(ret.value) = 5
    /\ Len(arg) > 5

\* C24: the checks of InputValidator.validate are made on the trimmed, un-escaped
\* input in the order empty, too short, too long, forbidden pattern; the first that
\* fails gives the error; the input is escaped only when all have passed, so an input
\* with a forbidden pattern is rejected even when its escaped form has none.
C24_CheckOrder ==
    InputValidatorReturned =>
        LET q == strip(arg)
        IN  IF q = <<>> THEN Rejected(ret, "Question cannot be empty")
            ELSE IF Len(q) < MIN_LENGTH THEN Rejected(ret, "Question too short (min 3 chars)")
            ELSE IF Len(q) > MAX_LENGTH THEN Rejected(ret, "Question too long (max 2000 chars)")
            ELSE IF Forbidden(q) THEN Rejected(ret, "Question contains forbidden patterns")
            ELSE ret = Return(escape(q))

\* a question is rejected for a forbidden pattern that its escaped form does not have
C24_Witness ==
    /\ InputValidatorReturned
    /\ Rejected(ret, "Question contains forbidden patterns")
    /\ Forbidden(strip(arg))
    /\ ~Forbidden(escape(strip(arg)))

(***************************************************************************)
(* The context built from a list of documents, on its own                  *)
(***************************************************************************)
MaxContextDocs == 3

ContextPool == { Document(<<>>), Document(<<"A", "I", ".">>), Document(<<"B", "\n">>), Document(<<"\n", "\n">>) }

ContextDocLists == UNION {[1..n -> ContextPool] : n \in 0..MaxContextDocs}

InitContext ==
    /\ NoExecute
    /\ NoRequest
    /\ NoLoop
    /\ NoApp
    /\ vpc = "called"
    /\ validator = "context"
    /\ arg \in ContextDocLists
    /\ ret = Pending
    /\ ret_again = Pending

\* line 88: context = "\n\n".join([doc.page_content for doc in documents])
BuildContext ==
    /\ vpc = "called"
    /\ validator = "context"
    /\ ret' = Return(Context(arg))
    /\ vpc' = "returned"
    /\ UNCHANGED <<validator, arg, ret_again>>

NextContext == BuildContext /\ UNCHANGED <<vars, httpvars, loopvars, appvars>>

SpecContext == InitContext /\ [][NextContext]_<<vars, others>>

RECURSIVE ContentStart(_, _)
\* where the content of document i starts in the context: after the contents of the
\* documents before it and one two-character separator for each
ContentStart(docs, i) ==
    IF i = 1 THEN 1
    ELSE ContentStart(docs, i - 1) + Len(docs[i - 1].page_content) + 2

\* C22: the context is made of the contents of the documents, each whole, in the order
\* of the list, every one present (equal ones too), with a double newline between
\* consecutive ones and nothing else; no document gives the empty string.
C22_ContextAssembly ==
    (validator = "context" /\ vpc = "returned") =>
        LET docs == arg
            ctx == ret.value
            n == Len(docs)
        IN  /\ ~ret.raised
            /\ n = 0 => ctx = <<>>
            /\ n > 0 => Len(ctx) = ContentStart(docs, n) + Len(docs[n].page_content) - 1
            /\ \A i \in 1..n :
                  LET from == ContentStart(docs, i)
                      to == from + Len(docs[i].page_content) - 1
                  IN  /\ SubSeq(ctx, from, to) = docs[i].page_content
                      /\ i < n => SubSeq(ctx, to + 1, to + 2) = <<"\n", "\n">>

\* three documents, two of them with the same content, are joined
C22_Witness ==
    /\ validator = "context"
    /\ vpc = "returned"
    /\ Len(arg) = 3
    /\ arg[1] = arg[3]
    /\ arg[1] # arg[2]
    /\ arg[1].page_content # <<>>
    /\ Len(ret.value) = 2 * Len(arg[1].page_content) + Len(arg[2].page_content) + 4

(***************************************************************************)
(* The Container of singletons (infrastructure/container.py), the          *)
(* readiness probe and the admin re-ingest (main.py). Every operation runs *)
(* from start to end on the event loop thread: get_llm and get_embeddings  *)
(* are synchronous, initialize and cleanup await nothing.                  *)
(***************************************************************************)
MaxInstances == 2

\* what a factory does when it is called: it returns a new object, returns None (a
\* patched factory, tests/unit/test_container.py line 75) or raises ValueError
FactoryOutcomes == {"instance", "None", "raises"}

RuntimeError(msg) == [type |-> "RuntimeError", msg |-> msg, cause |-> None]

\* the n-th object a factory returned
Instance(factory, n) == [type |-> factory, id |-> n]

\* the factory returned one more object
Built(F, factory) == [F EXCEPT ![factory].ever = @ + 1, ![factory].since_cleanup = @ + 1]

\* the state a Container method works on, with what the call did and its result
World ==
    [Container |-> Container, factories |-> factories, gets |-> gets,
     did |-> {}, result |-> Return(None)]

\* a variant of get_llm: the object is created on every call
get_llm_uncached(W, f) ==
    CASE f = "instance" ->
             LET F == Built(W.factories, "create_llm")
                 o == Instance("create_llm", F.create_llm.ever)
             IN  [W EXCEPT !.Container._llm = o,
                           !.factories = F,
                           !.gets.get_llm = @ \cup {o},
                           !.did = @ \cup {<<"create_llm", "instance">>},
                           !.result = Return(o)]
      [] f = "None" ->
             [W EXCEPT !.Container._llm = None,
                       !.did = @ \cup {<<"create_llm", "None">>},
                       !.result = Raise(RuntimeError("Failed to initialize LLM"))]
      [] f = "raises" ->
             [W EXCEPT !.did = @ \cup {<<"create_llm", "raises">>},
                       !.result = Raise(ValueError("OPENAI_API_KEY is required when using OpenAI provider"))]

\* Container.get_llm, lines 28-39; f is what create_llm does if it is called
get_llm(W, f) ==
    IF W.Container._llm = None
    THEN CASE f = "instance" ->
                  LET F == Built(W.factories, "create_llm")
                      o == Instance("create_llm", F.create_llm.ever)
                  IN  [W EXCEPT !.Container._llm = o,
                                !.factories = F,
                                !.gets.get_llm = @ \cup {o},
                                !.did = @ \cup {<<"create_llm", "instance">>},
                                !.result = Return(o)]
           [] f = "None" ->
                  [W EXCEPT !.Container._llm = None,
                            !.did = @ \cup {<<"create_llm", "None">>},
                            !.result = Raise(RuntimeError("Failed to initialize LLM"))]
           [] f = "raises" ->
                  [W EXCEPT !.did = @ \cup {<<"create_llm", "raises">>},
                            !.result = Raise(ValueError("OPENAI_API_KEY is required when using OpenAI provider"))]
    ELSE [W EXCEPT !.gets.get_llm = @ \cup {W.Container._llm},
                   !.result = Return(W.Container._llm)]

\* Container.get_embeddings, lines 41-50; g is what create_embeddings does if it is
\* called. A None it returned is stored and returned: there is no second check.
get_embeddings(W, g) ==
    IF W.Container._embeddings = None
    THEN CASE g = "instance" ->
                  LET F == Built(W.factories, "create_embeddings")
                      o == Instance("create_embeddings", F.create_embeddings.ever)
                  IN  [W EXCEPT !.Container._embeddings = o,
                                !.factories = F,
                                !.gets.get_embeddings = @ \cup {o},
                                !.did = @ \cup {<<"create_embeddings", "instance">>},
                                !.result = Return(o)]
           [] g = "None" ->
                  [W EXCEPT !.Container._embeddings = None,
                            !.did = @ \cup {<<"create_embeddings", "None">>},
                            !.result = Return(None)]
           [] g = "raises" ->
                  [W EXCEPT !.did = @ \cup {<<"create_embeddings", "raises">>},
                            !.result = Raise(ValueError("OPENAI_API_KEY is required"))]
    ELSE [W EXCEPT !.gets.get_embeddings = @ \cup {W.Container._embeddings},
                   !.result = Return(W.Container._embeddings)]

\* Container.initialize, lines 52-68: get_llm, then get_embeddings unless get_llm raised
initialize(W, f, g) ==
    LET W1 == get_llm(W, f)
    IN  IF W1.result.raised
        THEN W1
        ELSE LET W2 == get_embeddings(W1, g)
             IN  IF W2.result.raised THEN W2 ELSE [W2 EXCEPT !.result = Return(None)]

\* a factory can return a new object while fewer than MaxInstances were built
CanBuild(factory, o) == o = "instance" => factories[factory].ever < MaxInstances

\* the Container and the directory as a call finds them
Before == [Container |-> Container, chroma_dir |-> chroma_dir]

\* the Container after a call, and the record of the call
Called(op, W) ==
    /\ Container' = W.Container
    /\ factories' = W.factories
    /\ gets' = W.gets
    /\ last' = [op |-> op, args |-> {}, did |-> W.did, before |-> Before,
                result |-> W.result]
    /\ UNCHANGED <<retired, environ, chroma_dir>>

GetLlm(f) ==
    /\ CanBuild("create_llm", f)
    /\ Called("get_llm", get_llm(World, f))

GetEmbeddings(g) ==
    /\ CanBuild("create_embeddings", g)
    /\ Called("get_embeddings", get_embeddings(World, g))

\* main.py line 42, at startup
Initialize(f, g) ==
    /\ CanBuild("create_llm", f)
    /\ CanBuild("create_embeddings", g)
    /\ Called("initialize", initialize(World, f, g))

\* Container.cleanup, lines 70-83 (main.py line 55, at shutdown)
Cleanup ==
    /\ Container' = [_llm |-> None, _embeddings |-> None]
    /\ retired' = retired \cup ({Container._llm, Container._embeddings} \ {None})
    /\ factories' = [x \in DOMAIN factories |-> [factories[x] EXCEPT !.since_cleanup = 0]]
    /\ gets' = NoGets
    /\ last' = [op |-> "cleanup", args |-> {}, did |-> {}, before |-> Before,
                result |-> Return(None)]
    /\ UNCHANGED <<environ, chroma_dir>>

\* a variant of readiness: one initialized component is enough
readiness_any(C) ==
    LET components ==
            [llm |-> IF C._llm # None THEN "ready" ELSE "not_initialized",
             embeddings |-> IF C._embeddings # None THEN "ready" ELSE "not_initialized"]
        is_ready == \E k \in DOMAIN components : components[k] = "ready"
    IN  Response(200, [status |-> IF is_ready THEN "ready" ELSE "not_ready",
                       components |-> components])

\* main.py lines 176-189, GET /health/ready
readiness(C) ==
    LET components ==
            [llm |-> IF C._llm # None THEN "ready" ELSE "not_initialized",
             embeddings |-> IF C._embeddings # None THEN "ready" ELSE "not_initialized"]
        is_ready == \A k \in DOMAIN components : components[k] = "ready"
    IN  Response(200, [status |-> IF is_ready THEN "ready" ELSE "not_ready",
                       components |-> components])

Readiness ==
    /\ last' = [op |-> "readiness", args |-> {}, did |-> {}, before |-> Before,
                result |-> readiness(Container)]
    /\ UNCHANGED <<Container, factories, gets, retired, environ, chroma_dir>>

\* the name is set in the environment
InEnviron(name) == \E p \in environ : p[1] = name

\* os.getenv(name) when the name is set; it is None otherwise
os_getenv(name) == (CHOOSE p \in environ : p[1] = name)[2]

\* a variant of InvalidAdminKey: the key that is not configured counts as empty
InvalidAdminKeyDefaultEmpty(admin_key) ==
    admin_key # (IF InEnviron("ADMIN_REINGEST_KEY") THEN os_getenv("ADMIN_REINGEST_KEY") ELSE "")

\* main.py lines 198-199: not expected_key or admin_key != expected_key
InvalidAdminKey(admin_key) ==
    \/ ~InEnviron("ADMIN_REINGEST_KEY")
    \/ os_getenv("ADMIN_REINGEST_KEY") = ""
    \/ admin_key # os_getenv("ADMIN_REINGEST_KEY")

AdminKeys == {"", "secret", "wrong"}

\* the query of POST /admin/reingest: admin_key=k, or no admin_key
ReingestQueries == {{}} \cup {{<<"admin_key", k>>} : k \in AdminKeys}

\* what the steps after the removal do: all succeed, os.makedirs raises, or
\* ingest_data raises
ReingestSteps == {"ok", "makedirs raises", "ingest_data raises"}

\* main.py lines 192-240, POST /admin/reingest. rm: shutil.rmtree(ignore_errors=True)
\* removed the directory. A request with no admin_key is answered 422 by FastAPI
\* (Query(...), line 193) before the handler runs.
Reingest(query, rm, step) ==
    /\ UNCHANGED <<Container, factories, gets, retired, environ>>
    /\ IF query = {}
       THEN /\ last' = [op |-> "reingest", args |-> query, did |-> {}, before |-> Before,
                        result |-> HTTPException(422, "Field required")]
            /\ UNCHANGED chroma_dir
       ELSE LET admin_key == (CHOOSE p \in query : p[1] = "admin_key")[2]
            IN  IF InvalidAdminKey(admin_key)
                THEN /\ last' = [op |-> "reingest", args |-> query, did |-> {},
                                 before |-> Before,
                                 result |-> HTTPException(401, "Invalid admin key")]
                     /\ UNCHANGED chroma_dir
                ELSE LET exists == chroma_dir # "absent"
                         removed == IF exists /\ rm THEN "absent" ELSE chroma_dir
                         made == IF removed = "absent" THEN "empty" ELSE removed
                         rmtree == IF exists
                                   THEN {<<"rmtree", IF rm THEN "removed" ELSE "failed">>}
                                   ELSE {}
                     IN  CASE step = "makedirs raises" ->
                                  /\ chroma_dir' = removed
                                  /\ last' = [op |-> "reingest", args |-> query,
                                              did |-> rmtree \cup {<<"makedirs", "raises">>},
                                              before |-> Before,
                                              result |-> HTTPException(500, "Re-ingest failed: Permission denied")]
                           [] step = "ingest_data raises" ->
                                  /\ chroma_dir' = made
                                  /\ last' = [op |-> "reingest", args |-> query,
                                              did |-> rmtree \cup {<<"makedirs", "ok">>,
                                                                   <<"ingest_data", "raises">>},
                                              before |-> Before,
                                              result |-> HTTPException(500, "Re-ingest failed: API error")]
                           [] step = "ok" ->
                                  /\ chroma_dir' = "ingested"
                                  /\ last' = [op |-> "reingest", args |-> query,
                                              did |-> rmtree \cup {<<"makedirs", "ok">>,
                                                                   <<"ingest_data", "ok">>},
                                              before |-> Before,
                                              result |-> Response(200, [status |-> "success", message |-> "Data re-ingested successfully"])]

InitApp ==
    /\ Container = EmptyContainer
    /\ factories = NoInstances
    /\ gets = NoGets
    /\ retired = {}
    /\ environ \in {{}, {<<"ADMIN_REINGEST_KEY", "">>}, {<<"ADMIN_REINGEST_KEY", "secret">>}}
    /\ chroma_dir \in {"absent", "stale"}
    /\ last = NoCall
    /\ NoExecute
    /\ NoValidatorCall
    /\ NoRequest
    /\ NoLoop

NextApp ==
    \/ \E f \in FactoryOutcomes : GetLlm(f) /\ UNCHANGED <<vars, valvars, httpvars, loopvars>>
    \/ \E g \in FactoryOutcomes : GetEmbeddings(g) /\ UNCHANGED <<vars, valvars, httpvars, loopvars>>
    \/ \E f, g \in FactoryOutcomes : Initialize(f, g) /\ UNCHANGED <<vars, valvars, httpvars, loopvars>>
    \/ Cleanup /\ UNCHANGED <<vars, valvars, httpvars, loopvars>>
    \/ Readiness /\ UNCHANGED <<vars, valvars, httpvars, loopvars>>
    \/ \E query \in ReingestQueries, rm \in BOOLEAN, step \in ReingestSteps :
           Reingest(query, rm, step) /\ UNCHANGED <<vars, valvars, httpvars, loopvars>>

SpecApp == InitApp /\ [][NextApp]_<<vars, others>>

\* the factory a getter calls
FactoryOf == [get_llm |-> "create_llm", get_embeddings |-> "create_embeddings"]

\* the slot a getter fills
SlotOf == [get_llm |-> "_llm", get_embeddings |-> "_embeddings"]

\* the last call invoked the factory, which did o
Invoked(factory, o) == <<factory, o>> \in last.did

\* C28: between two cleanups each factory returns an instance at most once, and every
\* getter call that returns an instance returns that one, the one in the slot; a
\* getter that finds its slot filled does not call the factory. After cleanup both
\* slots are empty, and what the getters return afterwards is never an instance
\* cleanup dropped: a getter that finds its slot empty calls the factory. When
\* create_llm returns None, get_llm raises RuntimeError and the slot stays empty.
C28_Singletons ==
    /\ \A get \in DOMAIN FactoryOf :
          /\ factories[FactoryOf[get]].since_cleanup <= 1
          /\ Cardinality(gets[get]) <= 1
          /\ None \notin gets[get]
          /\ gets[get] \subseteq {Container[SlotOf[get]]}
          /\ gets[get] \cap retired = {}
          /\ Container[SlotOf[get]] \notin retired
          /\ last.op = get =>
                IF last.before.Container[SlotOf[get]] # None
                THEN /\ last.did = {}
                     /\ ~last.result.raised
                     /\ last.result.value = last.before.Container[SlotOf[get]]
                     /\ Container = last.before.Container
                ELSE \E o \in FactoryOutcomes : last.did = {<<FactoryOf[get], o>>}
          /\ (last.op = "initialize" /\ last.before.Container[SlotOf[get]] # None) =>
                \A o \in FactoryOutcomes : ~Invoked(FactoryOf[get], o)
    /\ last.op = "cleanup" =>
          /\ Container._llm = None
          /\ Container._embeddings = None
    /\ (last.op = "get_llm" /\ Invoked("create_llm", "None")) =>
          /\ last.result.raised
          /\ last.result.error = RuntimeError("Failed to initialize LLM")
          /\ Container._llm = None

\* after a cleanup get_llm was called twice or more and create_llm returned an instance once:
\* the second instance create_llm ever built is in the slot and was returned by a call
\* that did not call the factory
C28_Witness ==
    /\ retired # {}
    /\ last.op = "get_llm"
    /\ last.did = {}
    /\ ~last.result.raised
    /\ last.result.value = Instance("create_llm", 2)
    /\ factories.create_llm.since_cleanup = 1

\* C29: the readiness probe answers "ready" exactly when both slots of the Container
\* are filled, and reports each component "ready" exactly when its slot is filled,
\* "not_initialized" otherwise; it answers "not_ready" before anything was initialized
\* and after cleanup.
C29_Readiness ==
    LET r == readiness(Container)
    IN  /\ r.status_code = 200
        /\ r.body.status \in {"ready", "not_ready"}
        /\ r.body.status = "ready" <=> (Container._llm # None /\ Container._embeddings # None)
        /\ r.body.components.llm = IF Container._llm # None THEN "ready" ELSE "not_initialized"
        /\ r.body.components.embeddings =
               IF Container._embeddings # None THEN "ready" ELSE "not_initialized"
        /\ last.op \in {"none", "cleanup"} => r.body.status = "not_ready"
        /\ last.op = "readiness" => last.result = r

\* the probe answered "not_ready" with the LLM ready: the embeddings are missing
C29_Witness ==
    /\ last.op = "readiness"
    /\ last.result.body.status = "not_ready"
    /\ last.result.body.components.llm = "ready"
    /\ last.result.body.components.embeddings = "not_initialized"

\* the admin_key of the last re-ingest request
SuppliedKey == (CHOOSE p \in last.args : p[1] = "admin_key")[2]

\* ADMIN_REINGEST_KEY is configured and the supplied key equals it
KeyMatches ==
    /\ InEnviron("ADMIN_REINGEST_KEY")
    /\ SuppliedKey = os_getenv("ADMIN_REINGEST_KEY")

\* C30: a re-ingest request removes the directory or runs the ingestion only when
\* ADMIN_REINGEST_KEY is configured and the supplied key equals it; with a wrong key,
\* or with the key not configured whatever key is supplied, the answer is 401 and the
\* directory is as it was.
C30_ReingestGuard ==
    (last.op = "reingest" /\ last.args # {}) =>
        /\ (last.did # {} \/ chroma_dir # last.before.chroma_dir) => KeyMatches
        /\ ~KeyMatches =>
              /\ last.result = HTTPException(401, "Invalid admin key")
              /\ last.did = {}
              /\ chroma_dir = last.before.chroma_dir

\* a wrong key after a successful re-ingest: 401, the ingested directory is kept
C30_Witness ==
    /\ last.op = "reingest"
    /\ last.args = {<<"admin_key", "wrong">>}
    /\ last.result.status_code = 401
    /\ last.before.chroma_dir = "ingested"
    /\ chroma_dir = "ingested"

====
